---- MODULE Spec2Model ----
(***************************************************************************)
(* A model of the MCP server: the protocol dispatcher (ProtocolHandler),   *)
(* the feature managers it routes to, and the streamable HTTP transport    *)
(* with its session store.                                                 *)
(*                                                                         *)
(* JSON values are records whose members are either a value or the marker  *)
(* Absent; a JSON string is a TLA+ string, a text that the code inspects   *)
(* by prefix, suffix or substring is a sequence of tokens.                 *)
(***************************************************************************)
EXTENDS Integers, Sequences, FiniteSets, TLC

\* ------------------------------------------------------------------------
\* Bounds of the model
\* ------------------------------------------------------------------------

\* Number of session ids Uuid::new_v4 can hand out in one run.
MaxSessions == 2

\* The clock runs from 0 to MaxTime.
MaxTime == 2

\* config.session_timeout, in clock ticks.
SessionTimeout == 1

\* Longest batch a caller sends.
MaxBatch == 2

\* The concurrent callers of the dispatcher (tasks of the runtime): one that
\* sends every message of the model, and a peer whose messages are the ones
\* that write the state the callers share.
Caller == "t1"

Peer == "t2"

Tasks == {Caller, Peer}

\* ------------------------------------------------------------------------
\* JSON and JSON-RPC values
\* ------------------------------------------------------------------------

\* A member that is missing from a JSON object.
Absent == "<absent>"

\* The JSON value null.
Null == "<null>"

JSONRPC_VERSION == "2.0"

PROTOCOL_VERSION == "2025-03-26"

\* Request ids the callers use: two scalars, null and the empty string.
ValidIds == {"a", "b"}

\* A URI is its scheme prefix and the rest; a method name is its namespace
\* prefix and the rest ("tools/call" is <<"tools/", "call">>, "ping" is
\* <<"ping", "">>, the empty string is <<"", "">>).
Str(prefix, rest) == <<prefix, rest>>

starts_with(s, prefix) == s[1] = prefix

is_empty(s) == s = Str("", "")

TextHello == Str("text://", "hello")

TextOther == Str("text://", "other")

FileX == Str("file://", "/x")

Uris == {TextHello, TextOther, FileX}

\* A JSON value inside a tool's arguments: t is its type, n the number it
\* holds and s the string it holds.
JAbsent == [t |-> "absent", n |-> 0, s |-> ""]

JNumber(n) == [t |-> "number", n |-> n, s |-> ""]

JString(s) == [t |-> "string", n |-> 0, s |-> s]

\* Value::is_number, and as_f64 returning Some
is_number(v) == v.t = "number"

\* Value::is_string, and as_str returning Some
is_string(v) == v.t = "string"

\* Option<Value> arguments of a tool call: t = "none" is None, "object" a
\* JSON object with the members that are not JAbsent, "other" a JSON value
\* that is no object (get() finds no member in it).
NoArguments ==
    [t |-> "none", operation |-> JAbsent, a |-> JAbsent, b |-> JAbsent,
     message |-> JAbsent, text |-> JAbsent]

NotAnObject == [NoArguments EXCEPT !.t = "other"]

EmptyObject == [NoArguments EXCEPT !.t = "object"]

CalculatorArgs(operation, a, b) ==
    [EmptyObject EXCEPT !.operation = operation, !.a = a, !.b = b]

EchoArgs(message) == [EmptyObject EXCEPT !.message = message]

StringArgs(text, operation) ==
    [EmptyObject EXCEPT !.text = text, !.operation = operation]

\* params of a message: has = FALSE is a missing "params" member; init says
\* whether the object deserializes as InitializeRequest.
NoParams ==
    [has |-> FALSE, init |-> FALSE, uri |-> Str(Absent, Absent),
     name |-> Absent, level |-> Absent, requestId |-> Absent,
     arguments |-> NoArguments]

EmptyParams == [NoParams EXCEPT !.has = TRUE]

InitParams == [EmptyParams EXCEPT !.init = TRUE]

UriParams(u) == [EmptyParams EXCEPT !.uri = u]

NameParams(n) == [EmptyParams EXCEPT !.name = n]

LevelParams(l) == [EmptyParams EXCEPT !.level = l]

CancelParams(r) == [EmptyParams EXCEPT !.requestId = r]

CallParams(n, arguments) == [NameParams(n) EXCEPT !.arguments = arguments]

\* AnyJsonRpcMessage: kind is the variant; the members a variant lacks are
\* Absent, items is the batch's array.
Message(kind, jsonrpc, id, method, params, result, error, items) ==
    [kind |-> kind, jsonrpc |-> jsonrpc, id |-> id, method |-> method,
     params |-> params, result |-> result, error |-> error, items |-> items]

JsonRpcRequest(jsonrpc, id, method, params) ==
    Message("Request", jsonrpc, id, method, params, Absent, Absent, <<>>)

JsonRpcNotification(jsonrpc, method, params) ==
    Message("Notification", jsonrpc, Absent, method, params, Absent, Absent, <<>>)

JsonRpcResponseIn(jsonrpc, id, result, error) ==
    Message("Response", jsonrpc, id, Str(Absent, Absent), NoParams, result, error, <<>>)

JsonRpcBatch(items) ==
    Message("Batch", Absent, Absent, Str(Absent, Absent), NoParams, Absent, Absent, items)

NoMessage ==
    Message("None", Absent, Absent, Str(Absent, Absent), NoParams, Absent, Absent, <<>>)

\* A serde_json::Value as it stands in a batch or an HTTP body: a JSON object
\* with the members of a message, or a JSON array; kind "Garbage" is a text
\* that is no JSON.
JsonObject(jsonrpc, id, method, params, result, error) ==
    Message("Object", jsonrpc, id, method, params, result, error, <<>>)

JsonArray(items) ==
    Message("Array", Absent, Absent, Str(Absent, Absent), NoParams, Absent, Absent, items)

Garbage ==
    Message("Garbage", Absent, Absent, Str(Absent, Absent), NoParams, Absent, Absent, <<>>)

\* serde_json::to_value of a message: the object with the message's members.
to_value(m) ==
    IF m.kind = "Batch" THEN JsonArray(m.items)
    ELSE JsonObject(m.jsonrpc, m.id, m.method, m.params, m.result, m.error)

\* ------------------------------------------------------------------------
\* Errors
\* ------------------------------------------------------------------------

McpError(variant, text) == [variant |-> variant, text |-> text]

NoError == McpError("None", "")

\* A to_json_rpc_code that reports refused parameters as an internal error.
to_json_rpc_code_internal(e) ==
    CASE e.variant = "ParseError" -> -32700
      [] e.variant = "InvalidRequest" -> -32600
      [] e.variant = "MethodNotFound" -> -32601
      [] OTHER -> -32603

\* McpError::to_json_rpc_code
to_json_rpc_code(e) ==
    CASE e.variant = "ParseError" -> -32700
      [] e.variant = "InvalidRequest" -> -32600
      [] e.variant = "MethodNotFound" -> -32601
      [] e.variant = "InvalidParams" -> -32602
      [] e.variant = "InternalError" -> -32603
      [] OTHER -> -32603

\* The Display text of an McpError: the variant's prefix, then its text.
to_string(e) ==
    CASE e.variant = "ParseError" -> <<"Parse error: ", e.text>>
      [] e.variant = "InvalidRequest" -> <<"Invalid request: ", e.text>>
      [] e.variant = "MethodNotFound" -> <<"Method not found: ", e.text>>
      [] e.variant = "InvalidParams" -> <<"Invalid params: ", e.text>>
      [] e.variant = "InternalError" -> <<"Internal error: ", e.text>>
      [] e.variant = "Protocol" -> <<"Protocol error: ", e.text>>
      [] e.variant = "Resource" -> <<"Resource error: ", e.text>>
      [] e.variant = "Tool" -> <<"Tool error: ", e.text>>
      [] e.variant = "Prompt" -> <<"Prompt error: ", e.text>>
      [] OTHER -> <<"Other error: ", e.text>>

\* impl From<McpError> for JsonRpcError
JsonRpcError(e) == [code |-> to_json_rpc_code(e), message |-> to_string(e)]

NoJsonRpcError == [code |-> 0, message |-> <<>>]

\* Result<Value>: Ok(value) or Err(error).
Ok(v) == [ok |-> TRUE, value |-> v, err |-> NoError]

Err(e) == [ok |-> FALSE, value |-> Absent, err |-> e]

\* ------------------------------------------------------------------------
\* Method names and validation (protocol/validation.rs)
\* ------------------------------------------------------------------------

M_initialize == Str("initialize", "")
M_ping == Str("ping", "")
M_resources_list == Str("resources/", "list")
M_resources_templates_list == Str("resources/", "templates/list")
M_resources_read == Str("resources/", "read")
M_resources_subscribe == Str("resources/", "subscribe")
M_resources_unsubscribe == Str("resources/", "unsubscribe")
M_tools_list == Str("tools/", "list")
M_tools_call == Str("tools/", "call")
M_prompts_list == Str("prompts/", "list")
M_prompts_get == Str("prompts/", "get")
M_sampling_createMessage == Str("sampling/", "createMessage")
M_logging_setLevel == Str("logging/", "setLevel")
M_completion_complete == Str("completion/", "complete")
M_roots_list == Str("roots/", "list")

\* The methods handle_request has a route for, besides initialize and ping.
GatedMethods ==
    {M_resources_list, M_resources_templates_list, M_resources_read,
     M_resources_subscribe, M_resources_unsubscribe, M_tools_list, M_tools_call,
     M_prompts_list, M_prompts_get, M_sampling_createMessage, M_logging_setLevel,
     M_completion_complete, M_roots_list}

RoutedMethods == {M_initialize, M_ping} \cup GatedMethods

N_initialized == Str("notifications/", "initialized")
N_cancelled == Str("notifications/", "cancelled")
N_progress == Str("notifications/", "progress")
N_unknown == Str("notifications/", "unknown")

\* validate_method_name: the approved prefixes.
valid_prefixes ==
    {"initialize", "ping", "notifications/", "resources/", "prompts/", "tools/",
     "sampling/", "logging/", "completion/", "roots/"}

\* Result<()>
OkUnit == Ok("()")

validate_request(request) ==
    IF request.jsonrpc # JSONRPC_VERSION
    THEN Err(McpError("InvalidRequest", "Invalid JSON-RPC version"))
    ELSE IF is_empty(request.method)
    THEN Err(McpError("InvalidRequest", "Method name cannot be empty"))
    ELSE IF request.id = Null
    THEN Err(McpError("InvalidRequest", "Request ID must not be null"))
    ELSE IF request.id = ""
    THEN Err(McpError("InvalidRequest", "Request ID cannot be empty string"))
    ELSE OkUnit

validate_notification(notification) ==
    IF notification.jsonrpc # JSONRPC_VERSION
    THEN Err(McpError("InvalidRequest", "Invalid JSON-RPC version"))
    ELSE IF is_empty(notification.method)
    THEN Err(McpError("InvalidRequest", "Method name cannot be empty"))
    ELSE OkUnit

validate_response(response) ==
    IF response.jsonrpc # JSONRPC_VERSION
    THEN Err(McpError("InvalidRequest", "Invalid JSON-RPC version"))
    ELSE IF response.result # Absent /\ response.error # Absent
    THEN Err(McpError("InvalidRequest", "Response cannot have both result and error"))
    ELSE IF response.result = Absent /\ response.error = Absent
    THEN Err(McpError("InvalidRequest", "Response must have either result or error"))
    ELSE OkUnit

validate_method_name(method) ==
    IF is_empty(method)
    THEN Err(McpError("InvalidRequest", "Method name cannot be empty"))
    ELSE IF ~(\E prefix \in valid_prefixes : starts_with(method, prefix))
    THEN Err(McpError("MethodNotFound", "Method not found"))
    ELSE OkUnit

\* JsonRpcResponse::success and JsonRpcResponse::error
JsonRpcResponse(id, result, error) ==
    [jsonrpc |-> JSONRPC_VERSION, id |-> id, result |-> result, error |-> error]

ResponseSuccess(id, result) == JsonRpcResponse(id, result, NoJsonRpcError)

ResponseError(id, error) == JsonRpcResponse(id, Absent, error)

NoResponse == JsonRpcResponse(Absent, Absent, NoJsonRpcError)

\* Result<Option<AnyJsonRpcMessage>>, the value handle_message returns:
\* Ok(None), Ok(Some(Response)), Ok(Some(Batch)) or Err.
RetNone == [tag |-> "Ok", kind |-> "None", response |-> NoResponse,
            batch |-> <<>>, err |-> NoError]

RetResponse(r) == [RetNone EXCEPT !.kind = "Response", !.response = r]

RetBatch(rs) == [RetNone EXCEPT !.kind = "Batch", !.batch = rs]

RetErr(e) == [RetNone EXCEPT !.tag = "Err", !.err = e]

\* No call has returned.
NoRet == [RetNone EXCEPT !.tag = "Pending"]

\* ------------------------------------------------------------------------
\* State
\* ------------------------------------------------------------------------

VARIABLES
    \* ProtocolHandler
    initialized,        \* the initialized flag
    active_requests,    \* the ids in the active_requests map
    boot,               \* position of the setup_defaults task, 0 .. BootSteps
    \* ResourceManager, ToolManager, PromptManager
    resources,          \* URIs of the registered resources
    providers,          \* names of the registered resource providers
    subscriptions,      \* uri -> list of client ids
    tools,              \* names of the tool definitions
    handlers,           \* names of the tool handlers
    tools_enabled,      \* ToolManager's enabled flag
    prompts,            \* names of the prompt definitions
    generators,         \* names of the prompt generators
    \* One call per task: handle_message, or an HTTP handler
    pc,                 \* "idle", "batch", "tracked", "routed" or "done"
    msg,                \* the message handle_message was called with
    cur,                \* the request that is inside handle_request
    batch,              \* handle_batch: the items left and the responses so far
    res,                \* the Result the route returned
    ret,                \* what handle_message / handle_request returned
    \* HTTP transport
    cors_origins,       \* config.cors_origins
    sessions,           \* session id -> Session
    minted,             \* number of session ids generated so far
    now,                \* the clock
    expired_sessions,   \* the ids the cleanup task collected, and its position
    http,               \* per task: the HTTP request and its reply
    \* Direct callers of the feature managers
    call,               \* the latest manager call: its arguments and its Result
    walk,               \* a client's walk through the pages of a list
    \* Process-wide state
    registry,           \* TOOL_HANDLER_REGISTRY: the Vec of registrations
    \* HttpTransport
    posts,              \* the POSTs in their handler, the messages in the
                        \* transport's channel and the latest status
    \* SessionManager
    cleanup,            \* cleanup_handle, whether the cleanup task has been
                        \* aborted and whether stop() has returned
    \* ResourceManager under concurrent callers
    provider_hooks,     \* per URI: the hook the providers were called with last
    subscribing,        \* per task: the subscribe or unsubscribe call it is in
    \* McpServer
    server              \* the running flag, the position of start(), the
                        \* messages in the manager's channel and its senders

handlerVars == <<initialized, active_requests>>

managerVars ==
    <<resources, providers, subscriptions, tools, handlers, tools_enabled,
      prompts, generators>>

taskVars == <<pc, msg, cur, batch, res, ret>>

transportVars == <<cors_origins, sessions, minted, now, expired_sessions>>

\* The state of the life cycle of the process's long-lived objects.
lifeVars == <<cleanup, provider_hooks, subscribing, server>>

callVars == <<call, walk, registry, posts, lifeVars>>

\* The capacity of the channel HttpTransport::start makes for the messages
\* of the transport.
channel_capacity == 1000

\* SessionManager::new: cleanup_handle is None and start_cleanup_task has
\* spawned the cleanup task; the JoinHandle of the task is dropped at the
\* end of start_cleanup_task, nothing stores it in cleanup_handle.
NewCleanup == [handle |-> FALSE, aborted |-> FALSE, stopped |-> FALSE]

\* The long-lived objects after their construction.
\* The capacity of the channel TransportManager::new makes.
manager_channel_capacity == 1000

\* McpServer::new: running is false, start() has not been called, and the
\* channel of the TransportManager is empty with one sender, the
\* message_sender field of the manager.
NewServer == [running |-> FALSE, loop |-> "new", queued |-> 0, senders |-> 1]

\* The task is in no subscribe or unsubscribe call.
NotSubscribing == [op |-> "none"]

InitLife ==
    /\ cleanup = NewCleanup
    /\ provider_hooks = <<>>
    /\ subscribing = [t \in Tasks |-> NotSubscribing]
    /\ server = NewServer

\* No POST has arrived and nothing is in the channel.
NoPosts == [pending |-> 0, queued |-> 0, status |-> 0]

vars == <<handlerVars, boot, managerVars, taskVars, transportVars, http, callVars>>

\* ------------------------------------------------------------------------
\* Feature managers (server/features)
\* ------------------------------------------------------------------------

\* The client id handle_resources_subscribe passes to the manager.
DefaultClient == "default-client"

\* ResourceProvider::can_handle of SimpleTextProvider, the only provider
\* setup_defaults registers, and of FileSystemProvider.
can_handle(provider, uri) ==
    \/ /\ provider = "simple-text"
       /\ starts_with(uri, "text://")
    \/ /\ provider = "filesystem"
       /\ starts_with(uri, "file://")

\* SimpleTextProvider::read_resource
provider_read_resource(provider, uri) ==
    IF uri = TextHello
    THEN Ok("contents")
    ELSE Err(McpError("Resource", "Unknown text resource"))

\* ResourceManager::read_resource: the first provider that can handle the URI.
read_resource(uri) ==
    IF \E p \in providers : can_handle(p, uri)
    THEN provider_read_resource(CHOOSE p \in providers : can_handle(p, uri), uri)
    ELSE Err(McpError("Resource", "No provider found for resource"))

Contains(list, x) == \E i \in 1..Len(list) : list[i] = x

\* Vec::retain(|id| id != client_id)
Retain(list, x) == SelectSeq(list, LAMBDA e : e # x)

\* A subscribe that pushes the client without looking for it in the list.
subscribe_appending(subs, uri, client_id) ==
    LET clients == IF uri \in DOMAIN subs THEN subs[uri] ELSE <<>>
    IN [u \in DOMAIN subs \cup {uri} |->
           IF u = uri THEN Append(clients, client_id) ELSE subs[u]]

\* ResourceManager::subscribe: the subscription map after the call.
subscribe(subs, uri, client_id) ==
    LET clients == IF uri \in DOMAIN subs THEN subs[uri] ELSE <<>>
        added == IF Contains(clients, client_id) THEN clients
                 ELSE Append(clients, client_id)
    IN [u \in DOMAIN subs \cup {uri} |-> IF u = uri THEN added ELSE subs[u]]

\* An unsubscribe that removes nothing.
unsubscribe_keeping(subs, uri, client_id) == subs

\* ResourceManager::unsubscribe: the subscription map after the call.
unsubscribe(subs, uri, client_id) ==
    IF uri \notin DOMAIN subs
    THEN subs
    ELSE LET kept == Retain(subs[uri], client_id)
         IN IF kept = <<>>
            THEN [u \in DOMAIN subs \ {uri} |-> subs[u]]
            ELSE [subs EXCEPT ![uri] = kept]

\* The providers ResourceManager::subscribe notifies: its loop over the
\* registered providers calls the subscribe hook of each one that can handle
\* the URI.
subscribe_hooks(uri) == {p \in providers : can_handle(p, uri)}

\* The providers ResourceManager::unsubscribe notifies, given the map after
\* the removal: none while the URI still has an entry.
unsubscribe_hooks(subs, uri) ==
    IF uri \in DOMAIN subs THEN {} ELSE {p \in providers : can_handle(p, uri)}

\* ResourceProvider::list_resources: SimpleTextProvider lists text://hello,
\* FileSystemProvider the files of its root directory (one file, /x), and
\* the trait's default nothing.
provider_list_resources(provider) ==
    CASE provider = "simple-text" -> <<TextHello>>
      [] provider = "filesystem" -> <<FileX>>
      [] OTHER -> <<>>

\* URIs in ascending order ("file:///x" < "text://hello" < "text://other").
UrisSorted == <<FileX, TextHello, TextOther>>

\* How often a URI is in all_resources: once if it is registered, and once
\* for each provider that lists it.
occurrences(uri) ==
    (IF uri \in resources THEN 1 ELSE 0)
    + Cardinality({p \in providers : Contains(provider_list_resources(p), uri)})

Copies(x, n) == [i \in 1..n |-> x]

\* ResourceManager::list_resources without pagination: the URIs of
\* all_resources after sort_by(uri).
list_resources ==
    Ok(Copies(UrisSorted[1], occurrences(UrisSorted[1]))
       \o Copies(UrisSorted[2], occurrences(UrisSorted[2]))
       \o Copies(UrisSorted[3], occurrences(UrisSorted[3])))

\* The latest direct call of a manager; nothing yet.
NoCall == [op |-> "none"]

\* Cursor = String, as an Option: the text of a present cursor.
NoCursor == [some |-> FALSE, text |-> ""]

Cursor(text) == [some |-> TRUE, text |-> text]

\* Option<PaginationParams>: None, or params with their optional cursor.
NoPagination == [some |-> FALSE, cursor |-> NoCursor]

Pagination(cursor) == [some |-> TRUE, cursor |-> cursor]

\* Default page size
page_size == 50

\* usize::to_string: the decimal text of an index.
index_to_string(n) == ToString(n)

\* cursor.parse::<usize>().unwrap_or(0) on the cursors the callers pass for
\* a list of len items: the index whose decimal text the cursor is, and 0
\* for a text that is no number.
parse_or_zero(text, len) ==
    IF \E n \in 0..(len + page_size) : index_to_string(n) = text
    THEN CHOOSE n \in 0..(len + page_size) : index_to_string(n) = text
    ELSE 0

\* A page that leaves out the item after it.
apply_pagination_skipping(items, params) ==
    LET start_index == IF params.cursor.some
                       THEN parse_or_zero(params.cursor.text, Len(items))
                       ELSE 0
        reach == start_index + page_size
        end_index == IF reach < Len(items) THEN reach ELSE Len(items)
    IN [page |-> IF start_index < Len(items)
                 THEN SubSeq(items, start_index + 1, end_index)
                 ELSE <<>>,
        next_cursor |-> IF end_index < Len(items)
                        THEN Cursor(index_to_string(end_index + 1))
                        ELSE NoCursor]

\* apply_pagination of ToolManager, PromptManager and ResourceManager, and
\* apply_template_pagination: four copies of the same code. drain takes
\* the items start_index .. end_index (counted from 0, end excluded).
apply_pagination(items, params) ==
    LET start_index == IF params.cursor.some
                       THEN parse_or_zero(params.cursor.text, Len(items))
                       ELSE 0
        reach == start_index + page_size
        end_index == IF reach < Len(items) THEN reach ELSE Len(items)
    IN [page |-> IF start_index < Len(items)
                 THEN SubSeq(items, start_index + 1, end_index)
                 ELSE <<>>,
        next_cursor |-> IF end_index < Len(items)
                        THEN Cursor(index_to_string(end_index))
                        ELSE NoCursor]

\* The end of list_tools, list_prompts, list_resources and list_templates:
\* "Apply pagination if provided" to the sorted list.
list_page(items, pagination) ==
    IF pagination.some
    THEN apply_pagination(items, pagination)
    ELSE [page |-> items, next_cursor |-> NoCursor]

\* No walk is under way.
NoWalk ==
    [items |-> <<>>, first |-> NoPagination, pagination |-> NoPagination,
     pages |-> <<>>, done |-> TRUE]

\* ToolResult: the text of its one content item, and is_error.
ToolResult(content, is_error) == [content |-> content, is_error |-> is_error]

\* ToolResult::text
ToolResult_text(text) == ToolResult(text, FALSE)

\* An error text that is not flagged as an error.
ToolResult_error_text_unflagged(text) == ToolResult(text, FALSE)

\* ToolResult::error_text
ToolResult_error_text(text) == ToolResult(text, TRUE)

\* EchoToolHandler::validate_arguments
echo_validate_arguments(arguments) ==
    IF arguments.t = "none" THEN OkUnit
    ELSE IF arguments.t # "object"
    THEN Err(McpError("InvalidParams", "Arguments must be an object"))
    ELSE IF arguments.message.t # "absent" /\ ~is_string(arguments.message)
    THEN Err(McpError("InvalidParams", "Message must be a string"))
    ELSE OkUnit

\* EchoToolHandler::execute
echo_execute(arguments) ==
    LET message == IF arguments.t # "none" /\ is_string(arguments.message)
                   THEN arguments.message.s
                   ELSE "Hello, world!"
    IN Ok(ToolResult_text("Echo: " \o message))

valid_operations == {"add", "subtract", "multiply", "divide", "power", "sqrt"}

\* CalculatorToolHandler::validate_arguments
calculator_validate_arguments(arguments) ==
    IF arguments.t = "none"
    THEN Err(McpError("InvalidParams", "Calculator requires arguments"))
    ELSE IF arguments.t # "object"
    THEN Err(McpError("InvalidParams", "Arguments must be an object"))
    ELSE IF ~is_string(arguments.operation)
    THEN Err(McpError("InvalidParams", "Operation is required and must be a string"))
    ELSE IF arguments.operation.s \notin valid_operations
    THEN Err(McpError("InvalidParams", "Invalid operation"))
    ELSE IF ~is_number(arguments.a)
    THEN Err(McpError("InvalidParams", "Parameter 'a' is required and must be a number"))
    ELSE IF arguments.operation.s # "sqrt" /\ ~is_number(arguments.b)
    THEN Err(McpError("InvalidParams", "Parameter 'b' is required and must be a number"))
    ELSE OkUnit

\* f64::sqrt followed by the cast to isize, on a whole number that is not
\* negative: the largest r with r * r <= a.
sqrt_as_isize(a) == CHOOSE r \in 0..a : r * r <= a /\ (r + 1) * (r + 1) > a

\* f64::powf followed by the cast to isize, on whole numbers that are not
\* negative; powf(0, 0) is 1.
powf_as_isize(a, b) == IF b = 0 THEN 1 ELSE a ^ b

\* The match on the operation in CalculatorToolHandler::execute, on whole
\* numbers that are not negative; the cast of a / b drops the fraction.
calculate(operation, a, b) ==
    CASE operation = "add" -> a + b
      [] operation = "subtract" -> a - b
      [] operation = "multiply" -> a * b
      [] operation = "divide" -> a \div b
      [] operation = "power" -> powf_as_isize(a, b)
      [] operation = "sqrt" -> sqrt_as_isize(a)

\* CalculatorToolHandler::execute
calculator_execute(arguments) ==
    IF arguments.t = "none"
    THEN Err(McpError("InvalidParams", "Calculator requires arguments"))
    ELSE IF ~is_string(arguments.operation)
    THEN Err(McpError("InvalidParams", "Operation is required"))
    ELSE IF ~is_number(arguments.a)
    THEN Err(McpError("InvalidParams", "Parameter 'a' is required and must be a number"))
    ELSE IF arguments.operation.s # "sqrt" /\ ~is_number(arguments.b)
    THEN Err(McpError("InvalidParams", "Parameter 'b' is required and must be a number"))
    ELSE LET operation == arguments.operation.s
             a == arguments.a.n
             b == IF operation = "sqrt" THEN 0 ELSE arguments.b.n
         IN IF operation = "divide" /\ b = 0
            THEN Ok(ToolResult_error_text("Division by zero"))
            ELSE IF operation \notin valid_operations
            THEN Ok(ToolResult_error_text("Unknown operation: " \o operation))
            ELSE Ok(ToolResult_text(
                     ToString(a) \o " " \o operation \o " " \o ToString(b)
                     \o " = " \o ToString(calculate(operation, a, b))))

\* str::to_uppercase on the texts the callers send.
to_uppercase(text) == IF text = "hi" THEN "HI" ELSE text

\* StringToolHandler::execute of examples/dynamic_tools.rs, a handler that
\* keeps the trait's validate_arguments and checks its arguments in execute.
string_execute(arguments) ==
    IF arguments.t = "none"
    THEN Err(McpError("InvalidParams", "String manipulator requires arguments"))
    ELSE IF ~is_string(arguments.text)
    THEN Err(McpError("InvalidParams", "Text parameter is required"))
    ELSE IF ~is_string(arguments.operation)
    THEN Err(McpError("InvalidParams", "Operation parameter is required"))
    ELSE IF arguments.operation.s = "uppercase"
    THEN Ok(ToolResult_text("Result: " \o to_uppercase(arguments.text.s)))
    ELSE IF arguments.operation.s = "length"
    THEN Ok(ToolResult_text("Result: " \o ToString(Len(arguments.text.s))))
    ELSE Err(McpError("InvalidParams", "Invalid operation"))

\* ToolHandler::validate_arguments of the handler registered under a name;
\* the trait's default accepts everything.
validate_arguments(handler, arguments) ==
    CASE handler = "echo" -> echo_validate_arguments(arguments)
      [] handler = "calculator" -> calculator_validate_arguments(arguments)
      [] OTHER -> OkUnit

\* A handler whose execute fails whatever the arguments.
execute_failing(handler, arguments) ==
    Err(McpError("InvalidParams", "Invalid operation"))

\* ToolHandler::execute of the handler registered under a name.
execute(handler, arguments) ==
    CASE handler = "echo" -> echo_execute(arguments)
      [] handler = "calculator" -> calculator_execute(arguments)
      [] OTHER -> string_execute(arguments)

\* ToolManager::call_tool
call_tool(name, arguments) ==
    IF ~tools_enabled
    THEN Err(McpError("Tool", "Tool feature is disabled"))
    ELSE IF name \notin tools
    THEN Err(McpError("Tool", "Tool not found"))
    ELSE IF name \notin handlers
    THEN Err(McpError("Tool", "No handler found for tool"))
    ELSE IF ~validate_arguments(name, arguments).ok
    THEN validate_arguments(name, arguments)
    ELSE execute(name, arguments)

\* Tool names in ascending order.
ToolNames == <<"calculator", "echo", "string_manipulator">>

\* ToolManager::list_tools without pagination: the names sorted ascending.
list_tools ==
    IF ~tools_enabled
    THEN Err(McpError("Tool", "Tool feature is disabled"))
    ELSE Ok(SelectSeq(ToolNames, LAMBDA n : n \in tools))

\* PromptManager::get_prompt_with_args
get_prompt_with_args(name) ==
    IF name \notin prompts
    THEN Err(McpError("Prompt", "Prompt not found"))
    ELSE Ok("messages")

\* ------------------------------------------------------------------------
\* Protocol dispatcher (protocol/handler.rs)
\* ------------------------------------------------------------------------

\* What a route does: the Result it returns, and the initialized flag and
\* the subscription map it leaves.
Outcome(result, init, subs) ==
    [result |-> result, initialized |-> init, subscriptions |-> subs]

\* A route that changes no state.
Pure(result) == Outcome(result, initialized, subscriptions)

\* A gate that lets every request through.
check_initialized_unguarded == OkUnit

\* A gate that opens only for the requests that name a session.
check_initialized_with_session ==
    IF ~initialized \/ \E t \in Tasks : pc[t] = "tracked" /\ ~http[t].req.session_id.some
    THEN Err(McpError("Protocol", "Server not initialized"))
    ELSE OkUnit

\* ProtocolHandler::check_initialized
check_initialized ==
    IF ~initialized
    THEN Err(McpError("Protocol", "Server not initialized"))
    ELSE OkUnit

\* An initialize that clears the flag when its parameters are refused.
handle_initialize_resetting(request) ==
    IF ~request.params.has \/ ~request.params.init
    THEN Outcome(Err(McpError("InvalidParams", "Invalid initialize parameters")),
                 FALSE, subscriptions)
    ELSE Outcome(Ok("InitializeResult"), TRUE, subscriptions)

handle_initialize(request) ==
    IF ~request.params.has
    THEN Pure(Err(McpError("InvalidParams", "Initialize request requires parameters")))
    ELSE IF ~request.params.init
    THEN Pure(Err(McpError("InvalidParams", "Invalid initialize parameters")))
    ELSE Outcome(Ok("InitializeResult"), TRUE, subscriptions)

handle_ping(request) == Pure(Ok("{}"))

handle_resources_list(request) ==
    IF ~check_initialized.ok THEN Pure(check_initialized)
    ELSE Pure(Ok("resources"))

handle_resource_templates_list(request) ==
    IF ~check_initialized.ok THEN Pure(check_initialized)
    ELSE Pure(Ok("resourceTemplates"))

handle_resources_read(request) ==
    IF ~check_initialized.ok THEN Pure(check_initialized)
    ELSE IF ~request.params.has
    THEN Pure(Err(McpError("InvalidParams", "resources/read request requires parameters")))
    ELSE IF request.params.uri = Str(Absent, Absent)
    THEN Pure(Err(McpError("InvalidParams", "Missing or invalid 'uri' parameter")))
    ELSE Pure(read_resource(request.params.uri))

handle_resources_subscribe(request) ==
    IF ~check_initialized.ok THEN Pure(check_initialized)
    ELSE IF ~request.params.has
    THEN Pure(Err(McpError("InvalidParams", "resources/subscribe request requires parameters")))
    ELSE IF request.params.uri = Str(Absent, Absent)
    THEN Pure(Err(McpError("InvalidParams", "Missing or invalid 'uri' parameter")))
    ELSE Outcome(Ok("{}"), initialized,
                 subscribe(subscriptions, request.params.uri, DefaultClient))

handle_resources_unsubscribe(request) ==
    IF ~check_initialized.ok THEN Pure(check_initialized)
    ELSE IF ~request.params.has
    THEN Pure(Err(McpError("InvalidParams", "resources/unsubscribe request requires parameters")))
    ELSE IF request.params.uri = Str(Absent, Absent)
    THEN Pure(Err(McpError("InvalidParams", "Missing or invalid 'uri' parameter")))
    ELSE Outcome(Ok("{}"), initialized,
                 unsubscribe(subscriptions, request.params.uri, DefaultClient))

handle_tools_list(request) ==
    IF ~check_initialized.ok THEN Pure(check_initialized)
    ELSE Pure(Ok("tools"))

\* The json! value handle_tools_call builds from a ToolResult.
tool_result_json(result) ==
    "{content: " \o result.content \o ", isError: " \o ToString(result.is_error) \o "}"

handle_tools_call(request) ==
    IF ~check_initialized.ok THEN Pure(check_initialized)
    ELSE IF ~request.params.has
    THEN Pure(Err(McpError("InvalidParams", "tools/call request requires parameters")))
    ELSE IF request.params.name = Absent
    THEN Pure(Err(McpError("InvalidParams", "Missing or invalid 'name' parameter")))
    ELSE LET result == call_tool(request.params.name, request.params.arguments)
         IN IF result.ok THEN Pure(Ok(tool_result_json(result.value)))
            ELSE Pure(result)

handle_prompts_list(request) ==
    IF ~check_initialized.ok THEN Pure(check_initialized)
    ELSE Pure(Ok("prompts"))

handle_prompts_get(request) ==
    IF ~check_initialized.ok THEN Pure(check_initialized)
    ELSE IF ~request.params.has
    THEN Pure(Err(McpError("InvalidParams", "prompts/get request requires parameters")))
    ELSE IF request.params.name = Absent
    THEN Pure(Err(McpError("InvalidParams", "Missing or invalid 'name' parameter")))
    ELSE Pure(get_prompt_with_args(request.params.name))

handle_sampling_create_message(request) ==
    IF ~check_initialized.ok THEN Pure(check_initialized)
    ELSE Pure(Ok("message"))

handle_logging_set_level(request) ==
    IF ~check_initialized.ok THEN Pure(check_initialized)
    ELSE IF ~request.params.has
    THEN Pure(Err(McpError("InvalidParams", "logging/setLevel request requires parameters")))
    ELSE IF request.params.level = Absent
    THEN Pure(Err(McpError("InvalidParams", "Missing or invalid 'level' parameter")))
    ELSE Pure(Ok("{}"))

handle_completion_complete(request) ==
    IF ~check_initialized.ok THEN Pure(check_initialized)
    ELSE Pure(Ok("completion"))

handle_roots_list(request) ==
    IF ~check_initialized.ok THEN Pure(check_initialized)
    ELSE Pure(Ok("roots"))

\* The match on request.method in handle_request.
route(request) ==
    CASE request.method = M_initialize -> handle_initialize(request)
      [] request.method = M_ping -> handle_ping(request)
      [] request.method = M_resources_list -> handle_resources_list(request)
      [] request.method = M_resources_templates_list ->
            handle_resource_templates_list(request)
      [] request.method = M_resources_read -> handle_resources_read(request)
      [] request.method = M_resources_subscribe -> handle_resources_subscribe(request)
      [] request.method = M_resources_unsubscribe ->
            handle_resources_unsubscribe(request)
      [] request.method = M_tools_list -> handle_tools_list(request)
      [] request.method = M_tools_call -> handle_tools_call(request)
      [] request.method = M_prompts_list -> handle_prompts_list(request)
      [] request.method = M_prompts_get -> handle_prompts_get(request)
      [] request.method = M_sampling_createMessage ->
            handle_sampling_create_message(request)
      [] request.method = M_logging_setLevel -> handle_logging_set_level(request)
      [] request.method = M_completion_complete -> handle_completion_complete(request)
      [] request.method = M_roots_list -> handle_roots_list(request)
      [] OTHER -> Pure(Err(McpError("MethodNotFound", "Method not found")))

\* A response that drops the id of its request.
respond_null_id(request, result) ==
    IF result.ok
    THEN ResponseSuccess(Null, result.value)
    ELSE ResponseError(Null, JsonRpcError(result.err))

\* The tail of handle_request: the JSON-RPC response for the route's Result.
respond(request, result) ==
    IF result.ok
    THEN ResponseSuccess(request.id, result.value)
    ELSE ResponseError(request.id, JsonRpcError(result.err))

\* The two validations at the head of handle_request.
validate(request) ==
    IF ~validate_request(request).ok
    THEN validate_request(request)
    ELSE validate_method_name(request.method)

\* Deserialization of AnyJsonRpcMessage (serde untagged): the first variant,
\* in the order Request, Notification, Response, Batch, whose required
\* members the value has; a Request needs jsonrpc, id and method, a
\* Notification jsonrpc and method, a Response jsonrpc and id.
from_value(v) ==
    IF v.kind = "Object" /\ v.jsonrpc # Absent /\ v.id # Absent
       /\ v.method # Str(Absent, Absent)
    THEN Ok(JsonRpcRequest(v.jsonrpc, v.id, v.method, v.params))
    ELSE IF v.kind = "Object" /\ v.jsonrpc # Absent /\ v.method # Str(Absent, Absent)
    THEN Ok(JsonRpcNotification(v.jsonrpc, v.method, v.params))
    ELSE IF v.kind = "Object" /\ v.jsonrpc # Absent /\ v.id # Absent
    THEN Ok(JsonRpcResponseIn(v.jsonrpc, v.id, v.result, v.error))
    ELSE IF v.kind = "Array"
    THEN Ok(JsonRpcBatch(v.items))
    ELSE Err(McpError("ParseError", "data did not match any variant"))

\* A handle_notification whose cancellation arm leaves active_requests alone.
handle_notification_keeping(notification) ==
    IF ~validate_notification(notification).ok
    THEN [result |-> validate_notification(notification),
          initialized |-> initialized, active_requests |-> active_requests]
    ELSE IF ~validate_method_name(notification.method).ok
    THEN [result |-> validate_method_name(notification.method),
          initialized |-> initialized, active_requests |-> active_requests]
    ELSE [result |-> OkUnit,
          initialized |-> initialized \/ notification.method = N_initialized,
          active_requests |-> active_requests]

\* handle_notification: validate, then the match on notification.method.
handle_notification(notification) ==
    IF ~validate_notification(notification).ok
    THEN [result |-> validate_notification(notification),
          initialized |-> initialized, active_requests |-> active_requests]
    ELSE IF ~validate_method_name(notification.method).ok
    THEN [result |-> validate_method_name(notification.method),
          initialized |-> initialized, active_requests |-> active_requests]
    ELSE IF notification.method = N_initialized
    THEN \* handle_initialized_notification
         [result |-> OkUnit, initialized |-> TRUE,
          active_requests |-> active_requests]
    ELSE IF notification.method = N_cancelled
    THEN \* handle_cancelled_notification
         [result |-> OkUnit, initialized |-> initialized,
          active_requests |->
              IF notification.params.has /\ notification.params.requestId # Absent
              THEN active_requests \ {notification.params.requestId}
              ELSE active_requests]
    ELSE [result |-> OkUnit, initialized |-> initialized,
          active_requests |-> active_requests]

\* handle_response: validate and log.
handle_response(response) == validate_response(response)

\* ------------------------------------------------------------------------
\* Actions of the dispatcher
\* ------------------------------------------------------------------------

NoBatch == [items |-> <<>>, responses |-> <<>>]

\* Option<String> of a session id. A session id is the ordinal of the
\* Uuid::new_v4 call that made it; 0 is an id the server never issued.
None == [some |-> FALSE, id |-> 0]

Some(id) == [some |-> TRUE, id |-> id]

\* The Origin header as the handlers read it: missing, present with bytes
\* that to_str refuses, or a text; the text is <<head, domain suffix>>.
NoOrigin == [present |-> FALSE, text |-> FALSE, value |-> Str("", "")]

OpaqueOrigin == [present |-> TRUE, text |-> FALSE, value |-> Str("", "")]

Origin(value) == [present |-> TRUE, text |-> TRUE, value |-> value]

\* An HTTP request: the verb, the Origin header, the media types the Accept
\* header's text contains (none for a missing header), the Mcp-Session-Id
\* header as get_session_id reads it, and the body as a JSON value.
HttpRequest(verb, origin, accept, session_id, body) ==
    [verb |-> verb, origin |-> origin, accept |-> accept,
     session_id |-> session_id, body |-> body]

NoHttpRequest == HttpRequest("None", NoOrigin, {}, None, Garbage)

\* An HTTP response: the status, the Mcp-Session-Id header, and the body:
\* nothing, a JSON object with an "error" text, a JSON-RPC response, or an
\* event stream.
HttpResponse(status, session_id, kind, text, response) ==
    [status |-> status, session_id |-> session_id,
     body |-> [kind |-> kind, text |-> text, response |-> response]]

NoHttpResponse == HttpResponse(0, None, "Pending", "", NoResponse)

\* The HTTP exchange a task serves: the request, the session id
\* get_or_create_session returned for it, and the response.
Exchange(req, session_id, resp) ==
    [req |-> req, session_id |-> session_id, resp |-> resp]

\* A task that is not serving an HTTP request.
NoHttp == Exchange(NoHttpRequest, None, NoHttpResponse)

\* The call of task t returns value: handle_message, or the enclosing
\* handle_batch through the ? operator.
Returns(t, value) ==
    /\ pc' = [pc EXCEPT ![t] = "done"]
    /\ ret' = [ret EXCEPT ![t] = value]

\* A handle_batch that returns the collected responses last first.
BatchContinue_reversed(t, items, responses) ==
    /\ batch' = [batch EXCEPT ![t] = [items |-> items, responses |-> responses]]
    /\ IF items = <<>>
       THEN Returns(t, IF responses = <<>> THEN RetNone
                       ELSE RetBatch([i \in 1..Len(responses) |->
                                         responses[Len(responses) + 1 - i]]))
       ELSE /\ pc' = [pc EXCEPT ![t] = "batch"]
            /\ UNCHANGED ret

\* handle_batch after an element: the loop goes on with the items left, and
\* with none left it returns the collected responses.
BatchContinue(t, items, responses) ==
    /\ batch' = [batch EXCEPT ![t] = [items |-> items, responses |-> responses]]
    /\ IF items = <<>>
       THEN Returns(t, IF responses = <<>> THEN RetNone ELSE RetBatch(responses))
       ELSE /\ pc' = [pc EXCEPT ![t] = "batch"]
            /\ UNCHANGED ret

\* handle_request up to the insertion into active_requests; a request that
\* fails validation returns the error at once.
begin_request(t, request) ==
    /\ cur' = [cur EXCEPT ![t] = request]
    /\ IF ~validate(request).ok
       THEN /\ Returns(t, RetErr(validate(request).err))
            /\ UNCHANGED active_requests
       ELSE /\ pc' = [pc EXCEPT ![t] = "tracked"]
            /\ active_requests' = active_requests \cup {request.id}
            /\ UNCHANGED ret

\* Arms that acknowledge a handled notification or response with a message.
none_or_err_ack(result) ==
    IF result.ok THEN RetResponse(ResponseSuccess(Null, "{}"))
    ELSE RetErr(result.err)

\* The Notification and Response arms of handle_message: the handler's error
\* propagates through ?, and a handler that succeeds yields Ok(None).
none_or_err(result) == IF result.ok THEN RetNone ELSE RetErr(result.err)

\* handle_message(message) for a message that is no batch, called by task t
\* directly (items = <<>>) or by handle_batch for the head of its items.
Dispatch(t, message, in_batch, items) ==
    \/ /\ message.kind = "Request"
       /\ begin_request(t, message)
       /\ batch' = [batch EXCEPT ![t].items = items]
       /\ UNCHANGED initialized
    \/ /\ message.kind = "Notification"
       /\ LET n == handle_notification(message)
          IN /\ initialized' = n.initialized
             /\ active_requests' = n.active_requests
             /\ IF n.result.ok /\ in_batch
                THEN BatchContinue(t, items, batch[t].responses)
                ELSE /\ Returns(t, none_or_err(n.result))
                     /\ batch' = [batch EXCEPT ![t].items = items]
       /\ UNCHANGED cur
    \/ /\ message.kind = "Response"
       /\ IF handle_response(message).ok /\ in_batch
          THEN BatchContinue(t, items, batch[t].responses)
          ELSE /\ Returns(t, none_or_err(handle_response(message)))
               /\ batch' = [batch EXCEPT ![t].items = items]
       /\ UNCHANGED <<initialized, active_requests, cur>>

\* handle_message(message) called by task t.
HandleMessage(t, message) ==
    /\ pc[t] = "idle"
    /\ msg' = [msg EXCEPT ![t] = message]
    /\ \/ /\ message.kind # "Batch"
          /\ Dispatch(t, message, FALSE, <<>>)
       \/ \* handle_batch: an empty batch is an invalid request
          /\ message.kind = "Batch"
          /\ IF message.items = <<>>
             THEN Returns(t, RetErr(McpError("InvalidRequest", "Batch cannot be empty")))
             ELSE /\ pc' = [pc EXCEPT ![t] = "batch"]
                  /\ UNCHANGED ret
          /\ batch' = [batch EXCEPT ![t] = [items |-> message.items,
                                            responses |-> <<>>]]
          /\ UNCHANGED <<initialized, active_requests, cur>>
    /\ UNCHANGED <<callVars, boot, managerVars, res, transportVars, http>>

\* A loop of handle_batch that passes over an item that does not parse.
BatchStep_skipping(t) ==
    /\ pc[t] = "batch"
    /\ LET item == Head(batch[t].items)
           rest == Tail(batch[t].items)
       IN IF ~from_value(item).ok
          THEN /\ BatchContinue(t, rest, batch[t].responses)
               /\ UNCHANGED <<initialized, active_requests, cur>>
          ELSE /\ from_value(item).value.kind # "Batch"
               /\ Dispatch(t, from_value(item).value, TRUE, rest)
    /\ UNCHANGED <<callVars, boot, managerVars, msg, res, transportVars, http>>

\* One turn of the loop of handle_batch: the next item is deserialized and
\* handed to handle_message; an item that does not parse ends the batch with
\* a parse error.
BatchStep(t) ==
    /\ pc[t] = "batch"
    /\ LET item == Head(batch[t].items)
           rest == Tail(batch[t].items)
       IN IF ~from_value(item).ok
          THEN /\ Returns(t, RetErr(from_value(item).err))
               /\ batch' = [batch EXCEPT ![t].items = rest]
               /\ UNCHANGED <<initialized, active_requests, cur>>
          ELSE /\ from_value(item).value.kind # "Batch"
               /\ Dispatch(t, from_value(item).value, TRUE, rest)
    /\ UNCHANGED <<callVars, boot, managerVars, msg, res, transportVars, http>>

\* The routing step of handle_request: the match on the method and the
\* handler it selects.
Route(t) ==
    /\ pc[t] = "tracked"
    /\ LET o == route(cur[t])
       IN /\ res' = [res EXCEPT ![t] = o.result]
          /\ initialized' = o.initialized
          /\ subscriptions' = o.subscriptions
    /\ pc' = [pc EXCEPT ![t] = "routed"]
    /\ UNCHANGED <<callVars, tools_enabled, active_requests, boot, resources, providers, tools, handlers,
                   prompts, generators, msg, cur, batch, ret, transportVars, http>>

\* The end of handle_request: the id leaves active_requests and the response
\* is built. handle_message wraps it in Some(Response); handle_batch pushes
\* it to its responses and goes on.
Finish(t) ==
    /\ pc[t] = "routed"
    /\ http[t] = NoHttp
    /\ active_requests' = active_requests \ {cur[t].id}
    /\ IF msg[t].kind = "Batch"
       THEN BatchContinue(t, batch[t].items,
                          Append(batch[t].responses, respond(cur[t], res[t])))
       ELSE /\ Returns(t, RetResponse(respond(cur[t], res[t])))
            /\ UNCHANGED batch
    /\ UNCHANGED <<callVars, initialized, boot, managerVars, msg, cur, res, transportVars, http>>

\* The caller takes the returned value; the task is free for the next call.
Return(t) ==
    /\ pc[t] = "done"
    /\ pc' = [pc EXCEPT ![t] = "idle"]
    /\ msg' = [msg EXCEPT ![t] = NoMessage]
    /\ cur' = [cur EXCEPT ![t] = NoMessage]
    /\ batch' = [batch EXCEPT ![t] = NoBatch]
    /\ res' = [res EXCEPT ![t] = OkUnit]
    /\ ret' = [ret EXCEPT ![t] = NoRet]
    /\ http' = [http EXCEPT ![t] = NoHttp]
    /\ UNCHANGED <<callVars, handlerVars, boot, managerVars, transportVars>>

\* Number of registrations setup_defaults makes, one lock acquisition each.
BootSteps == 6

\* One registration of the background task ProtocolHandler::new spawns:
\* resource, provider, tool, handler, prompt, generator, in this order.
SetupDefaults ==
    /\ boot < BootSteps
    /\ boot' = boot + 1
    /\ resources' = IF boot = 0 THEN resources \cup {TextHello} ELSE resources
    /\ providers' = IF boot = 1 THEN providers \cup {"simple-text"} ELSE providers
    /\ tools' = IF boot = 2 THEN tools \cup {"echo"} ELSE tools
    /\ handlers' = IF boot = 3 THEN handlers \cup {"echo"} ELSE handlers
    /\ prompts' = IF boot = 4 THEN prompts \cup {"greeting"} ELSE prompts
    /\ generators' = IF boot = 5 THEN generators \cup {"greeting"} ELSE generators
    /\ UNCHANGED <<callVars, tools_enabled, handlerVars, subscriptions, taskVars, transportVars, http>>

\* ------------------------------------------------------------------------
\* Streamable HTTP transport (transport/http.rs) and its session store
\* (transport/session.rs)
\* ------------------------------------------------------------------------

\* HttpConfig::default: every origin is allowed.
DefaultCorsOrigins == {Str("*", "")}

ends_with(s, suffix) == s[2] = suffix

\* is_origin_allowed: "*" allows everything; otherwise an entry allows the
\* origin it equals, and an entry "*.suffix" the origins that end with
\* ".suffix" (the domain suffix token begins with the dot).
is_origin_allowed(origin, allowed_origins) ==
    IF Str("*", "") \in allowed_origins
    THEN TRUE
    ELSE \E allowed \in allowed_origins :
            \/ allowed = origin
            \/ /\ starts_with(allowed, "*") /\ allowed[2] # ""
               /\ ends_with(origin, allowed[2])

\* An Origin check that rejects nothing.
origin_never_rejected(req) == FALSE

\* The Origin check at the head of the POST and GET handlers: only a header
\* that is present and readable as text is matched.
origin_rejected(req) ==
    /\ req.origin.present
    /\ req.origin.text
    /\ ~is_origin_allowed(req.origin.value, cors_origins)

\* Session::new at the current instant.
NewSession(id) == [id |-> id, created_at |-> now, last_activity |-> now]

\* An is_expired that counts a session idle for the timeout as expired.
is_expired_at_timeout(session, timeout) == now - session.last_activity >= timeout

\* Session::is_expired
is_expired(session, timeout) == now - session.last_activity > timeout

\* SessionManager::get_session: whether the map holds the id.
get_session(store, session_id) == session_id \in DOMAIN store

\* SessionManager::add_session
add_session(store, session) ==
    [k \in DOMAIN store \cup {session.id} |->
        IF k = session.id THEN session ELSE store[k]]

\* SessionManager::remove_session
remove_session(store, session_id) ==
    [k \in DOMAIN store \ {session_id} |-> store[k]]

\* Session::touch through SessionManager::touch_session
touch_session(store, session_id) ==
    [k \in DOMAIN store |->
        IF k = session_id THEN [store[k] EXCEPT !.last_activity = now] ELSE store[k]]

\* SessionManager::cleanup_expired_sessions: under the write lock, the ids
\* of the expired sessions are collected and removed; the result is their
\* number.
cleanup_expired_sessions(store, timeout) ==
    LET expired == {id \in DOMAIN store : is_expired(store[id], timeout)}
    IN [sessions |-> [k \in DOMAIN store \ expired |-> store[k]],
        count |-> Cardinality(expired)]

\* A resolution that makes a new session for every request.
get_or_create_session_always_new(req) ==
    [session_id |-> minted + 1,
     sessions |-> add_session(sessions, NewSession(minted + 1)),
     minted |-> minted + 1]

\* A resolution that touches the session it finds.
get_or_create_session_touching(req) ==
    IF req.session_id.some /\ get_session(sessions, req.session_id.id)
    THEN [session_id |-> req.session_id.id,
          sessions |-> touch_session(sessions, req.session_id.id),
          minted |-> minted]
    ELSE [session_id |-> minted + 1,
          sessions |-> add_session(sessions, NewSession(minted + 1)),
          minted |-> minted + 1]

\* get_or_create_session: the id of the request's header when the store
\* holds it, or else a new session under a fresh id.
get_or_create_session(req) ==
    IF req.session_id.some /\ get_session(sessions, req.session_id.id)
    THEN [session_id |-> req.session_id.id, sessions |-> sessions,
          minted |-> minted]
    ELSE [session_id |-> minted + 1,
          sessions |-> add_session(sessions, NewSession(minted + 1)),
          minted |-> minted + 1]

\* parse_message_or_batch: the messages of a JSON array, or the one message
\* of any other body; Err when a value is no message.
parse_message_or_batch(body) ==
    IF body.kind = "Array"
    THEN IF \E i \in DOMAIN body.items : ~from_value(body.items[i]).ok
         THEN Err(McpError("ParseError", "data did not match any variant"))
         ELSE Ok([i \in DOMAIN body.items |-> from_value(body.items[i]).value])
    ELSE IF from_value(body).ok
    THEN Ok(<<from_value(body).value>>)
    ELSE from_value(body)

\* The handler of task t answers.
Reply(t, req, session_id, resp) ==
    /\ pc' = [pc EXCEPT ![t] = "done"]
    /\ http' = [http EXCEPT ![t] = Exchange(req, session_id, resp)]

\* handle_streamable_http_post up to the call of handle_request: the Origin
\* check, the Accept check, get_or_create_session, the parse of the body,
\* 202 for a body without a request, and handle_request for a body that is
\* one request.
HttpPost(t, req) ==
    /\ pc[t] = "idle"
    /\ req.verb = "POST"
    /\ LET s == get_or_create_session(req)
           parsed == parse_message_or_batch(req.body)
           messages == parsed.value
           has_requests == \E i \in DOMAIN messages : messages[i].kind = "Request"
       IN IF origin_rejected(req)
          THEN /\ Reply(t, req, None,
                        HttpResponse(403, None, "Error", "Origin not allowed", NoResponse))
               /\ UNCHANGED <<sessions, minted, active_requests, cur, ret>>
          ELSE IF ~({"application/json", "text/event-stream"} \subseteq req.accept)
          THEN /\ Reply(t, req, None,
                        HttpResponse(400, None, "Error", "Accept header", NoResponse))
               /\ UNCHANGED <<sessions, minted, active_requests, cur, ret>>
          ELSE /\ s.minted <= MaxSessions
               /\ sessions' = s.sessions
               /\ minted' = s.minted
               /\ IF ~parsed.ok
                  THEN /\ Reply(t, req, Some(s.session_id),
                                HttpResponse(400, None, "JsonRpc", "",
                                    ResponseError(Null,
                                        [code |-> -32700, message |-> <<"Parse error">>])))
                       /\ UNCHANGED <<active_requests, cur, ret>>
                  ELSE IF ~has_requests
                  THEN /\ Reply(t, req, Some(s.session_id),
                                HttpResponse(202, None, "Empty", "", NoResponse))
                       /\ UNCHANGED <<active_requests, cur, ret>>
                  ELSE IF Len(messages) # 1
                  THEN /\ Reply(t, req, Some(s.session_id),
                                HttpResponse(501, None, "Error",
                                    "Batch requests not yet implemented", NoResponse))
                       /\ UNCHANGED <<active_requests, cur, ret>>
                  ELSE IF messages[1].kind # "Request"
                  THEN /\ Reply(t, req, Some(s.session_id),
                                HttpResponse(400, None, "Error",
                                    "Expected request message", NoResponse))
                       /\ UNCHANGED <<active_requests, cur, ret>>
                  ELSE /\ begin_request(t, messages[1])
                       /\ http' = [http EXCEPT ![t] =
                             Exchange(req, Some(s.session_id),
                                 IF validate(messages[1]).ok THEN NoHttpResponse
                                 ELSE HttpResponse(500, None, "JsonRpc", "",
                                        ResponseError(messages[1].id,
                                          [code |-> -32603,
                                           message |-> <<"Internal error: ">>
                                              \o to_string(validate(messages[1]).err)])))]
    /\ UNCHANGED <<callVars, initialized, boot, managerVars, msg, batch, res,
                   cors_origins, now, expired_sessions>>

\* The Ok arm of the POST handler after handle_request: status 200 with the
\* response as body, and an Mcp-Session-Id header when get_session_id finds
\* one in the request.
HttpFinish(t) ==
    /\ pc[t] = "routed"
    /\ http[t] # NoHttp
    /\ active_requests' = active_requests \ {cur[t].id}
    /\ Returns(t, RetResponse(respond(cur[t], res[t])))
    /\ http' = [http EXCEPT ![t].resp =
            HttpResponse(200, http[t].req.session_id, "JsonRpc", "",
                         respond(cur[t], res[t]))]
    /\ UNCHANGED <<callVars, initialized, boot, managerVars, msg, cur, batch, res,
                   transportVars>>

\* handle_streamable_http_get: the Origin check, the Accept check,
\* get_or_create_session, and the event stream with the session's id.
HttpGet(t, req) ==
    /\ pc[t] = "idle"
    /\ req.verb = "GET"
    /\ LET s == get_or_create_session(req)
       IN IF origin_rejected(req)
          THEN /\ Reply(t, req, None, HttpResponse(403, None, "Empty", "", NoResponse))
               /\ UNCHANGED <<sessions, minted>>
          ELSE IF "text/event-stream" \notin req.accept
          THEN /\ Reply(t, req, None, HttpResponse(405, None, "Empty", "", NoResponse))
               /\ UNCHANGED <<sessions, minted>>
          ELSE /\ s.minted <= MaxSessions
               /\ sessions' = s.sessions
               /\ minted' = s.minted
               /\ Reply(t, req, Some(s.session_id),
                        HttpResponse(200, Some(s.session_id), "EventStream", "",
                                     NoResponse))
    /\ UNCHANGED <<callVars, handlerVars, boot, managerVars, msg, cur, batch, res, ret,
                   cors_origins, now, expired_sessions>>

\* handle_delete_request: with an Mcp-Session-Id header the id is removed
\* from the store and the answer is 200; without one it is 400.
HttpDelete(t, req) ==
    /\ pc[t] = "idle"
    /\ req.verb = "DELETE"
    /\ IF req.session_id.some
       THEN /\ sessions' = remove_session(sessions, req.session_id.id)
            /\ Reply(t, req, None, HttpResponse(200, None, "Empty", "", NoResponse))
       ELSE /\ UNCHANGED sessions
            /\ Reply(t, req, None,
                     HttpResponse(400, None, "Error", "No session ID provided",
                                  NoResponse))
    /\ UNCHANGED <<callVars, handlerVars, boot, managerVars, msg, cur, batch, res, ret,
                   cors_origins, minted, now, expired_sessions>>

\* Time passes.
Tick ==
    /\ now < MaxTime
    /\ now' = now + 1
    /\ UNCHANGED <<callVars, handlerVars, boot, managerVars, taskVars, cors_origins,
                   sessions, minted, expired_sessions, http>>

\* The cleanup task of start_cleanup_task, first half of a turn: under the
\* read lock it collects the ids of the expired sessions.
CleanupCollect ==
    /\ ~cleanup.aborted
    /\ expired_sessions.pc = "sleep"
    /\ LET ids == {id \in DOMAIN sessions : is_expired(sessions[id], SessionTimeout)}
       IN expired_sessions' = [pc |-> IF ids = {} THEN "sleep" ELSE "collected",
                               ids |-> ids]
    /\ UNCHANGED <<callVars, handlerVars, boot, managerVars, taskVars, cors_origins,
                   sessions, minted, now, http>>

\* Second half: under the write lock it removes the ids it collected.
CleanupRemove ==
    /\ ~cleanup.aborted
    /\ expired_sessions.pc = "collected"
    /\ sessions' = [k \in DOMAIN sessions \ expired_sessions.ids |-> sessions[k]]
    /\ expired_sessions' = [pc |-> "sleep", ids |-> {}]
    /\ UNCHANGED <<callVars, handlerVars, boot, managerVars, taskVars, cors_origins,
                   minted, now, http>>

\* ------------------------------------------------------------------------
\* The messages the callers send
\* ------------------------------------------------------------------------

\* Method and params of the requests with a route or an approved prefix.
RequestShapes ==
    {<<M_initialize, NoParams>>, <<M_initialize, EmptyParams>>,
     <<M_initialize, InitParams>>, <<M_ping, NoParams>>,
     <<M_resources_list, NoParams>>, <<M_resources_templates_list, NoParams>>,
     <<M_resources_read, UriParams(TextHello)>>,
     <<M_resources_read, UriParams(FileX)>>,
     <<M_resources_subscribe, EmptyParams>>,
     <<M_resources_subscribe, UriParams(TextHello)>>,
     <<M_resources_unsubscribe, UriParams(TextHello)>>,
     <<M_tools_list, NoParams>>, <<M_tools_call, NameParams("echo")>>,
     <<M_prompts_list, NoParams>>, <<M_prompts_get, NameParams("greeting")>>,
     <<M_sampling_createMessage, NoParams>>,
     <<M_logging_setLevel, LevelParams("info")>>,
     <<M_completion_complete, NoParams>>, <<M_roots_list, NoParams>>,
     <<Str("tools/", "unknown"), NoParams>>}

\* Requests that pass validation.
ValidRequests ==
    {JsonRpcRequest(JSONRPC_VERSION, id, s[1], s[2]) :
        id \in ValidIds, s \in RequestShapes}

\* Requests that validate_request or validate_method_name rejects.
InvalidRequests ==
    {JsonRpcRequest("1.0", "a", M_ping, NoParams),
     JsonRpcRequest(JSONRPC_VERSION, Null, M_ping, NoParams),
     JsonRpcRequest(JSONRPC_VERSION, "", M_ping, NoParams),
     JsonRpcRequest(JSONRPC_VERSION, "a", Str("", ""), NoParams),
     JsonRpcRequest(JSONRPC_VERSION, "a", Str("foo/", "bar"), NoParams)}

Notifications ==
    {JsonRpcNotification(JSONRPC_VERSION, N_initialized, NoParams),
     JsonRpcNotification(JSONRPC_VERSION, N_progress, EmptyParams),
     JsonRpcNotification(JSONRPC_VERSION, N_unknown, NoParams),
     JsonRpcNotification(JSONRPC_VERSION, N_cancelled, NoParams),
     JsonRpcNotification("1.0", N_initialized, NoParams),
     JsonRpcNotification(JSONRPC_VERSION, Str("", ""), NoParams),
     JsonRpcNotification(JSONRPC_VERSION, Str("foo/", "bar"), NoParams)}
    \cup {JsonRpcNotification(JSONRPC_VERSION, N_cancelled, CancelParams(id)) :
            id \in ValidIds}

Responses ==
    {JsonRpcResponseIn(JSONRPC_VERSION, "a", "result", Absent),
     JsonRpcResponseIn(JSONRPC_VERSION, "b", Absent, "error"),
     JsonRpcResponseIn(JSONRPC_VERSION, "a", "result", "error"),
     JsonRpcResponseIn(JSONRPC_VERSION, "a", Absent, Absent),
     JsonRpcResponseIn("1.0", "a", "result", Absent)}

\* The items of the batches: two requests, a request that fails validation,
\* two notifications, a response and an object that is no message.
BatchItems ==
    {to_value(JsonRpcRequest(JSONRPC_VERSION, "a", M_ping, NoParams)),
     to_value(JsonRpcRequest(JSONRPC_VERSION, "b", M_initialize, InitParams)),
     to_value(JsonRpcRequest(JSONRPC_VERSION, Null, M_ping, NoParams)),
     to_value(JsonRpcNotification(JSONRPC_VERSION, N_initialized, NoParams)),
     to_value(JsonRpcResponseIn(JSONRPC_VERSION, "a", "result", Absent)),
     JsonObject(Absent, Absent, Str(Absent, Absent), EmptyParams, Absent, Absent)}

RECURSIVE SeqsUpTo(_, _)
\* The sequences over S of length at most n.
SeqsUpTo(S, n) ==
    IF n = 0 THEN {<<>>}
    ELSE LET shorter == SeqsUpTo(S, n - 1)
         IN shorter \cup {Append(q, x) : q \in shorter, x \in S}

Batches == {JsonRpcBatch(items) : items \in SeqsUpTo(BatchItems, MaxBatch)}

Messages ==
    ValidRequests \cup InvalidRequests \cup Notifications \cup Responses \cup Batches

\* The peer's messages: the requests and notifications that write the
\* initialized flag, active_requests or the subscription map.
PeerMessages ==
    {JsonRpcRequest(JSONRPC_VERSION, "a", M_initialize, InitParams),
     JsonRpcRequest(JSONRPC_VERSION, "a", M_resources_subscribe, UriParams(TextHello)),
     JsonRpcRequest(JSONRPC_VERSION, "a", M_resources_unsubscribe, UriParams(TextHello)),
     JsonRpcNotification(JSONRPC_VERSION, N_initialized, NoParams),
     JsonRpcNotification(JSONRPC_VERSION, N_cancelled, CancelParams("a")),
     JsonRpcNotification(JSONRPC_VERSION, N_cancelled, CancelParams("b"))}

\* ------------------------------------------------------------------------
\* The HTTP requests the clients send
\* ------------------------------------------------------------------------

\* A cors_origins list with an exact entry and a wildcard entry.
RestrictedCorsOrigins ==
    {Str("https://good", ".example.org"), Str("*", ".example.com")}

CorsConfigs == {DefaultCorsOrigins, RestrictedCorsOrigins}

\* No Origin header, one that is no text, one that equals an entry, one
\* under the wildcard entry, and one that matches no entry.
Origins ==
    {NoOrigin, OpaqueOrigin,
     Origin(Str("https://good", ".example.org")),
     Origin(Str("https://app", ".example.com")),
     Origin(Str("https://evil", ".example.net"))}

Accepts == SUBSET {"application/json", "text/event-stream"}

\* No Mcp-Session-Id header, an id the server never issued, and the ids it
\* has issued so far.
SessionHeaders == {None, Some(0)} \cup {Some(i) : i \in 1 .. minted}

PingBody == to_value(JsonRpcRequest(JSONRPC_VERSION, "a", M_ping, NoParams))

\* A tools/call request for the calculator.
CalculatorBody(operation, a, b) ==
    to_value(JsonRpcRequest(JSONRPC_VERSION, "a", M_tools_call,
                            CallParams("calculator",
                                       CalculatorArgs(JString(operation),
                                                      JNumber(a), JNumber(b)))))

\* Bodies of the POSTs: a text that is no JSON, requests (one that fails
\* validation, two with a method that has no route, two that call the
\* calculator), notifications, a response, and arrays.
HttpBodies ==
    {Garbage, PingBody, CalculatorBody("add", 5, 3), CalculatorBody("divide", 5, 0),
     to_value(JsonRpcRequest(JSONRPC_VERSION, "a", M_initialize, InitParams)),
     to_value(JsonRpcRequest(JSONRPC_VERSION, "b", M_tools_list, NoParams)),
     to_value(JsonRpcRequest("1.0", "a", M_ping, NoParams)),
     to_value(JsonRpcRequest(JSONRPC_VERSION, "a", Str("tools/", "unknown"), NoParams)),
     to_value(JsonRpcRequest(JSONRPC_VERSION, "a", Str("foo/", "bar"), NoParams)),
     to_value(JsonRpcNotification(JSONRPC_VERSION, N_initialized, NoParams)),
     to_value(JsonRpcNotification(JSONRPC_VERSION, N_cancelled, CancelParams("a"))),
     to_value(JsonRpcResponseIn(JSONRPC_VERSION, "a", "result", Absent)),
     JsonArray(<<>>),
     JsonArray(<<PingBody>>),
     JsonArray(<<to_value(JsonRpcNotification(JSONRPC_VERSION, N_initialized, NoParams))>>),
     JsonArray(<<PingBody, PingBody>>),
     JsonArray(<<JsonObject(Absent, Absent, Str(Absent, Absent), EmptyParams,
                            Absent, Absent)>>)}

\* Requests that try the header checks of the handler of a verb: every
\* Origin and Accept, with and without a session header, one body.
HeaderProbes(verb) ==
    {HttpRequest(verb, origin, accept, session_id, PingBody) :
        origin \in Origins, accept \in Accepts, session_id \in SessionHeaders}

\* POSTs that pass the header checks: every session header and body.
PostProbes ==
    {HttpRequest("POST", NoOrigin, {"application/json", "text/event-stream"},
                 session_id, body) :
        session_id \in SessionHeaders, body \in HttpBodies}

\* DELETE requests: the handler reads the session header only.
Deletes ==
    {HttpRequest("DELETE", origin, {}, session_id, Garbage) :
        origin \in {NoOrigin, Origin(Str("https://evil", ".example.net"))},
        session_id \in SessionHeaders}

\* ------------------------------------------------------------------------
\* Specification of the dispatcher under concurrent callers
\* ------------------------------------------------------------------------

Init ==
    /\ initialized = FALSE
    /\ active_requests = {}
    /\ boot = 0
    /\ resources = {}
    /\ providers = {}
    /\ subscriptions = <<>>
    /\ tools = {}
    /\ handlers = {}
    /\ tools_enabled = TRUE
    /\ prompts = {}
    /\ generators = {}
    /\ pc = [t \in Tasks |-> "idle"]
    /\ msg = [t \in Tasks |-> NoMessage]
    /\ cur = [t \in Tasks |-> NoMessage]
    /\ batch = [t \in Tasks |-> NoBatch]
    /\ res = [t \in Tasks |-> OkUnit]
    /\ ret = [t \in Tasks |-> NoRet]
    /\ cors_origins = DefaultCorsOrigins
    /\ sessions = <<>>
    /\ minted = 0
    /\ now = 0
    /\ expired_sessions = [pc |-> "sleep", ids |-> {}]
    /\ http = [t \in Tasks |-> NoHttp]
    /\ call = NoCall
    /\ walk = NoWalk
    /\ posts = NoPosts
    /\ InitLife
    /\ registry = <<>>

Next ==
    \/ \E m \in Messages : HandleMessage(Caller, m)
    \/ \E m \in PeerMessages : HandleMessage(Peer, m)
    \/ \E t \in Tasks : BatchStep(t)
    \/ \E t \in Tasks : Route(t)
    \/ \E t \in Tasks : Finish(t)
    \/ \E t \in Tasks : Return(t)
    \/ SetupDefaults

Spec == Init /\ [][Next]_vars

\* ------------------------------------------------------------------------
\* Specification of cancellation: the caller's requests are handled while
\* the peer's task handles its messages, the cancellations of the caller's
\* ids among them. The tasks are tokio tasks that wait for nothing but the
\* locks of the handler, so a request that is tracked is routed and a
\* request that is routed is finished.
\* ------------------------------------------------------------------------

NextCancel ==
    \/ \E m \in ValidRequests : HandleMessage(Caller, m)
    \/ \E m \in PeerMessages : HandleMessage(Peer, m)
    \/ \E t \in Tasks : Route(t)
    \/ \E t \in Tasks : Finish(t)
    \/ \E t \in Tasks : Return(t)
    \/ SetupDefaults

SpecCancel ==
    /\ Init
    /\ [][NextCancel]_vars
    /\ \A t \in Tasks : WF_vars(Route(t)) /\ WF_vars(Finish(t))

\* ------------------------------------------------------------------------
\* Specification of the HTTP transport: a client whose exchanges the
\* server handles one after the other, the clock and the cleanup task. The
\* first request finds the setup_defaults task of the handler that
\* init_global_protocol_handler built either not started or finished.
\* ------------------------------------------------------------------------

InitHttp ==
    /\ initialized = FALSE
    /\ active_requests = {}
    /\ boot \in {0, BootSteps}
    /\ resources = IF boot = BootSteps THEN {TextHello} ELSE {}
    /\ providers = IF boot = BootSteps THEN {"simple-text"} ELSE {}
    /\ subscriptions = <<>>
    /\ tools = IF boot = BootSteps THEN {"echo"} ELSE {}
    /\ handlers = IF boot = BootSteps THEN {"echo"} ELSE {}
    /\ tools_enabled = TRUE
    /\ prompts = IF boot = BootSteps THEN {"greeting"} ELSE {}
    /\ generators = IF boot = BootSteps THEN {"greeting"} ELSE {}
    /\ pc = [t \in Tasks |-> "idle"]
    /\ msg = [t \in Tasks |-> NoMessage]
    /\ cur = [t \in Tasks |-> NoMessage]
    /\ batch = [t \in Tasks |-> NoBatch]
    /\ res = [t \in Tasks |-> OkUnit]
    /\ ret = [t \in Tasks |-> NoRet]
    /\ cors_origins \in CorsConfigs
    /\ sessions = <<>>
    /\ minted = 0
    /\ now = 0
    /\ expired_sessions = [pc |-> "sleep", ids |-> {}]
    /\ http = [t \in Tasks |-> NoHttp]
    /\ call = NoCall
    /\ walk = NoWalk
    /\ posts = NoPosts
    /\ InitLife
    /\ registry = <<>>

NextHttp ==
    \/ /\ pc[Caller] = "idle"
       /\ \E req \in HeaderProbes("POST") : HttpPost(Caller, req)
    \/ /\ pc[Caller] = "idle"
       /\ \E req \in PostProbes : HttpPost(Caller, req)
    \/ /\ pc[Caller] = "idle"
       /\ \E req \in HeaderProbes("GET") : HttpGet(Caller, req)
    \/ /\ pc[Caller] = "idle"
       /\ \E req \in Deletes : HttpDelete(Caller, req)
    \/ Route(Caller)
    \/ HttpFinish(Caller)
    \/ Return(Caller)
    \/ Tick
    \/ CleanupCollect
    \/ CleanupRemove

SpecHttp == InitHttp /\ [][NextHttp]_vars

\* ------------------------------------------------------------------------
\* Direct calls of the ToolManager (server/features/tools.rs)
\* ------------------------------------------------------------------------

toolVars == <<tools, handlers, tools_enabled>>

exceptTools ==
    <<handlerVars, boot, resources, providers, subscriptions, prompts,
      generators, taskVars, transportVars, http, walk, registry, posts, lifeVars>>

\* ToolManager::register_tool; before is the registry the call found.
RegisterTool(name) ==
    /\ tools' = IF tools_enabled THEN tools \cup {name} ELSE tools
    /\ call' = [op |-> "register_tool", name |-> name, before |-> tools,
                result |-> IF tools_enabled THEN OkUnit
                           ELSE Err(McpError("Tool", "Tool feature is disabled"))]
    /\ UNCHANGED <<handlers, tools_enabled, exceptTools>>

\* An unregister_tool that removes nothing.
UnregisterTool_keeping(name) ==
    /\ tools' = tools
    /\ call' = [op |-> "unregister_tool", name |-> name, removed |-> FALSE,
                result |-> OkUnit]
    /\ UNCHANGED <<handlers, tools_enabled, exceptTools>>

\* ToolManager::unregister_tool; removed says whether the Option it
\* returns holds a tool.
UnregisterTool(name) ==
    /\ tools' = tools \ {name}
    /\ call' = [op |-> "unregister_tool", name |-> name,
                removed |-> name \in tools, result |-> OkUnit]
    /\ UNCHANGED <<handlers, tools_enabled, exceptTools>>

\* ToolManager::register_handler: the handler is stored under its own name.
RegisterHandler(name) ==
    /\ handlers' = handlers \cup {name}
    /\ call' = [op |-> "register_handler", name |-> name, result |-> OkUnit]
    /\ UNCHANGED <<tools, tools_enabled, exceptTools>>

\* ToolManager::set_enabled
SetEnabled(enabled) ==
    /\ tools_enabled' = enabled
    /\ call' = [op |-> "set_enabled", enabled |-> enabled]
    /\ UNCHANGED <<tools, handlers, exceptTools>>

\* ToolManager::call_tool
CallTool(name, arguments) ==
    /\ call' = [op |-> "call_tool", name |-> name, arguments |-> arguments,
                result |-> call_tool(name, arguments)]
    /\ UNCHANGED <<toolVars, exceptTools>>

\* ToolManager::list_tools
ListTools ==
    /\ call' = [op |-> "list_tools", result |-> list_tools]
    /\ UNCHANGED <<toolVars, exceptTools>>

\* Names of the tools the callers register and call.
CalledTools == {ToolNames[i] : i \in DOMAIN ToolNames}

\* Operands of the calculator calls.
Operands == {0, 5}

\* Arguments of the calls: none, a value that is no object, an empty object,
\* calculator arguments with every operation and one that is none ("modulo"),
\* with b zero, not zero and missing, and with a string for a; echo and
\* string_manipulator arguments, well-typed and not.
ToolArguments ==
    {NoArguments, NotAnObject, EmptyObject}
    \cup {CalculatorArgs(JString(operation), JNumber(a), b) :
            operation \in valid_operations \cup {"modulo"}, a \in Operands,
            b \in {JNumber(0), JNumber(3), JAbsent}}
    \cup {CalculatorArgs(JString("add"), JString("5"), JNumber(3)),
          EchoArgs(JString("hi")), EchoArgs(JNumber(5))}
    \cup {StringArgs(JString("hi"), JString(operation)) :
            operation \in {"uppercase", "length", "rot13"}}

NextTools ==
    \/ \E name \in CalledTools : RegisterTool(name)
    \/ \E name \in CalledTools : UnregisterTool(name)
    \/ \E name \in CalledTools : RegisterHandler(name)
    \/ \E enabled \in BOOLEAN : SetEnabled(enabled)
    \/ \E name \in CalledTools, arguments \in ToolArguments :
          CallTool(name, arguments)
    \/ ListTools

\* A ToolManager as ToolManager::new leaves it, and its callers.
SpecTools == Init /\ [][NextTools]_vars

\* ------------------------------------------------------------------------
\* Direct calls of the ResourceManager (server/features/resources.rs); its
\* enabled flag stays true, as set_enabled has no caller
\* ------------------------------------------------------------------------

resourceVars == <<resources, providers, subscriptions>>

exceptResources ==
    <<handlerVars, boot, tools, handlers, tools_enabled, prompts, generators,
      taskVars, transportVars, http, walk, registry, posts, lifeVars>>

\* ResourceManager::register_resource
RegisterResource(uri) ==
    /\ resources' = resources \cup {uri}
    /\ call' = [op |-> "register_resource", uri |-> uri, result |-> OkUnit]
    /\ UNCHANGED <<providers, subscriptions, exceptResources>>

\* ResourceManager::register_provider: the provider is stored under its name.
RegisterProvider(provider) ==
    /\ providers' = providers \cup {provider}
    /\ call' = [op |-> "register_provider", provider |-> provider,
                result |-> OkUnit]
    /\ UNCHANGED <<resources, subscriptions, exceptResources>>

\* ResourceManager::subscribe; before is the subscription map the call found
\* and hooked the providers whose subscribe hook it invoked.
Subscribe(uri, client_id) ==
    /\ subscriptions' = subscribe(subscriptions, uri, client_id)
    /\ call' = [op |-> "subscribe", uri |-> uri, client_id |-> client_id,
                before |-> subscriptions, hooked |-> subscribe_hooks(uri),
                result |-> OkUnit]
    /\ UNCHANGED <<resources, providers, exceptResources>>

\* ResourceManager::unsubscribe; hooked are the providers whose unsubscribe
\* hook it invoked.
Unsubscribe(uri, client_id) ==
    /\ subscriptions' = unsubscribe(subscriptions, uri, client_id)
    /\ call' = [op |-> "unsubscribe", uri |-> uri, client_id |-> client_id,
                before |-> subscriptions,
                hooked |-> unsubscribe_hooks(
                               unsubscribe(subscriptions, uri, client_id), uri),
                result |-> OkUnit]
    /\ UNCHANGED <<resources, providers, exceptResources>>

\* ResourceManager::list_resources
ListResources ==
    /\ call' = [op |-> "list_resources", result |-> list_resources]
    /\ UNCHANGED <<resourceVars, exceptResources>>

ProviderNames == {"simple-text", "filesystem"}

Clients == {DefaultClient, "client-2"}

\* URIs the callers register and subscribe to.
SubscribedUris == {TextHello, FileX}

NextResources ==
    \/ \E uri \in SubscribedUris : RegisterResource(uri)
    \/ \E provider \in ProviderNames : RegisterProvider(provider)
    \/ \E uri \in SubscribedUris, client_id \in Clients : Subscribe(uri, client_id)
    \/ \E uri \in SubscribedUris, client_id \in Clients : Unsubscribe(uri, client_id)
    \/ ListResources

\* A ResourceManager as ResourceManager::new leaves it, and its callers.
SpecResources == Init /\ [][NextResources]_vars

\* ------------------------------------------------------------------------
\* The process-wide ToolHandlerRegistry and ToolHandlerDiscovery
\* (server/features/tools.rs), called from two threads
\* ------------------------------------------------------------------------

\* ToolHandlerRegistration; factory_ok says whether its factory returns Ok.
ToolHandlerRegistration(name, priority, is_builtin, factory_ok) ==
    [name |-> name, priority |-> priority, is_builtin |-> is_builtin,
     factory_ok |-> factory_ok]

\* The names registered in a Vec of registrations.
Names(list) == {list[i].name : i \in DOMAIN list}

\* The place a stable sort by descending priority gives r after a list that
\* is sorted already: behind every registration of the same or a higher
\* priority.
insert_by_priority(sorted, r) ==
    LET k == Cardinality({i \in DOMAIN sorted : sorted[i].priority >= r.priority})
    IN SubSeq(sorted, 1, k) \o <<r>> \o SubSeq(sorted, k + 1, Len(sorted))

RECURSIVE sort_by_priority(_)
\* sort_by(|a, b| b.priority.cmp(&a.priority)), a stable sort.
sort_by_priority(list) ==
    IF list = <<>> THEN <<>>
    ELSE insert_by_priority(sort_by_priority(SubSeq(list, 1, Len(list) - 1)),
                            list[Len(list)])

\* A register that does not look for the name.
register_unchecked(list, r) ==
    [result |-> OkUnit, registry |-> sort_by_priority(Append(list, r))]

\* ToolHandlerRegistry::register under the registry's lock: its Result and
\* the Vec after it.
register(list, r) ==
    IF r.name \in Names(list)
    THEN [result |-> Err(McpError("Tool", "Tool handler is already registered")),
          registry |-> list]
    ELSE [result |-> OkUnit, registry |-> sort_by_priority(Append(list, r))]

\* The two registrations of register_builtin_handlers.
BuiltinEcho == ToolHandlerRegistration("echo", 100, TRUE, TRUE)

BuiltinCalculator == ToolHandlerRegistration("calculator", 100, TRUE, TRUE)

\* ToolsConfig as an Option; handlers is the list of ToolHandlerConfig.
NoToolsConfig ==
    [some |-> FALSE, handlers |-> <<>>, auto_discover_builtin |-> TRUE,
     enable_all_by_default |-> TRUE]

ToolsConfig(entries, auto_discover_builtin, enable_all_by_default) ==
    [some |-> TRUE, handlers |-> entries,
     auto_discover_builtin |-> auto_discover_builtin,
     enable_all_by_default |-> enable_all_by_default]

ToolHandlerConfig(name, enabled) == [name |-> name, enabled |-> enabled]

\* configured_handlers: collecting the (name, config) pairs into a HashMap
\* keeps, for a name, the last entry of the list.
configured_handlers(entries) ==
    [name \in Names(entries) |->
        entries[CHOOSE i \in DOMAIN entries :
                    /\ entries[i].name = name
                    /\ \A j \in DOMAIN entries : entries[j].name = name => j <= i]]

\* should_enable in filter_by_config
should_enable(registration, config) ==
    IF registration.name \in DOMAIN configured_handlers(config.handlers)
    THEN configured_handlers(config.handlers)[registration.name].enabled
    ELSE IF registration.is_builtin /\ config.auto_discover_builtin
    THEN config.enable_all_by_default
    ELSE FALSE

\* A filter that reads no configuration.
filter_by_config_all_builtin(registrations, config) ==
    SelectSeq(registrations, LAMBDA r : r.is_builtin)

\* ToolHandlerDiscovery::filter_by_config
filter_by_config(registrations, config) ==
    IF ~config.some
    THEN SelectSeq(registrations, LAMBDA r : r.is_builtin)
    ELSE sort_by_priority(SelectSeq(registrations,
                                    LAMBDA r : should_enable(r, config)))

\* The end of discover_handlers: one handler, named by its registration,
\* for each enabled registration whose factory returns Ok.
create_handlers(registrations, config) ==
    SelectSeq(filter_by_config(registrations, config), LAMBDA r : r.factory_ok)

exceptRegistry ==
    <<handlerVars, boot, managerVars, msg, cur, batch, res, ret, transportVars,
      http, walk, posts, lifeVars>>

\* ToolHandlerRegistry::register called by a thread.
Register(t, r) ==
    /\ pc[t] = "idle"
    /\ registry' = register(registry, r).registry
    /\ call' = [op |-> "register", thread |-> t, registration |-> r,
                before |-> registry, result |-> register(registry, r).result]
    /\ UNCHANGED <<pc, exceptRegistry>>

\* ToolHandlerRegistry::clear
Clear(t) ==
    /\ pc[t] = "idle"
    /\ registry' = <<>>
    /\ call' = [op |-> "clear", thread |-> t, result |-> OkUnit]
    /\ UNCHANGED <<pc, exceptRegistry>>

\* register_builtin_handlers up to its first ?: the registration of echo.
\* An Err ends the call; discover_handlers ignores it and goes on. from is
\* "direct" for a call of register_builtin_handlers and "discover" for the
\* one discover_handlers starts with.
RegisterBuiltinEcho(t, from) ==
    /\ pc[t] = "idle"
    /\ LET r == register(registry, BuiltinEcho)
       IN /\ registry' = r.registry
          /\ IF r.result.ok
             THEN /\ pc' = [pc EXCEPT ![t] = IF from = "direct" THEN "builtin"
                                             ELSE "discover_builtin"]
                  /\ UNCHANGED call
             ELSE IF from = "direct"
             THEN /\ call' = [op |-> "register_builtin_handlers", thread |-> t,
                              before |-> registry, result |-> r.result]
                  /\ UNCHANGED pc
             ELSE /\ pc' = [pc EXCEPT ![t] = "discover"]
                  /\ UNCHANGED call
    /\ UNCHANGED exceptRegistry

\* The rest of register_builtin_handlers: the registration of calculator.
RegisterBuiltinCalculator(t) ==
    /\ pc[t] \in {"builtin", "discover_builtin"}
    /\ LET r == register(registry, BuiltinCalculator)
       IN /\ registry' = r.registry
          /\ IF pc[t] = "builtin"
             THEN /\ call' = [op |-> "register_builtin_handlers", thread |-> t,
                              before |-> registry, result |-> r.result]
                  /\ pc' = [pc EXCEPT ![t] = "idle"]
             ELSE /\ pc' = [pc EXCEPT ![t] = "discover"]
                  /\ UNCHANGED call
    /\ UNCHANGED exceptRegistry

\* discover_handlers after register_builtin_handlers: get_all,
\* filter_by_config and the factories.
Discover(t, config) ==
    /\ pc[t] = "discover"
    /\ call' = [op |-> "discover_handlers", thread |-> t, config |-> config,
                registrations |-> registry,
                result |-> Ok(create_handlers(registry, config))]
    /\ pc' = [pc EXCEPT ![t] = "idle"]
    /\ UNCHANGED <<registry, exceptRegistry>>

\* Registrations a caller makes: a handler of its own above and one below
\* the built-in priority, one of them flagged built-in with a factory that
\* fails, a handler under the name echo, and one at the built-in priority.
UserRegistrations ==
    {ToolHandlerRegistration("custom", 150, FALSE, TRUE),
     ToolHandlerRegistration("custom", 50, TRUE, FALSE),
     ToolHandlerRegistration("echo", 50, FALSE, TRUE),
     ToolHandlerRegistration("extra", 100, FALSE, TRUE)}

\* Lists of ToolHandlerConfig: none, one that disables a built-in, one that
\* enables a handler of the caller, two entries for one name, two names.
HandlerConfigs ==
    {<<>>,
     <<ToolHandlerConfig("echo", FALSE)>>,
     <<ToolHandlerConfig("custom", TRUE)>>,
     <<ToolHandlerConfig("echo", FALSE), ToolHandlerConfig("echo", TRUE)>>,
     <<ToolHandlerConfig("extra", TRUE), ToolHandlerConfig("calculator", FALSE)>>}

ToolsConfigs ==
    {NoToolsConfig}
    \cup {ToolsConfig(hs, a, e) : hs \in HandlerConfigs, a \in BOOLEAN, e \in BOOLEAN}

NextRegistry ==
    \/ \E t \in Tasks, r \in UserRegistrations : Register(t, r)
    \/ \E t \in Tasks : Clear(t)
    \/ \E t \in Tasks, from \in {"direct", "discover"} : RegisterBuiltinEcho(t, from)
    \/ \E t \in Tasks : RegisterBuiltinCalculator(t)
    \/ \E t \in Tasks, config \in ToolsConfigs : Discover(t, config)

\* The registry as get_registry first makes it, and two threads.
SpecRegistry == Init /\ [][NextRegistry]_vars

\* ------------------------------------------------------------------------
\* A client that walks through the pages of a list over an unchanged
\* registry (list_tools, list_prompts, list_resources, list_templates)
\* ------------------------------------------------------------------------

\* The longest list walked.
MaxItems == 101

\* The full sorted list of a registry with n items: an item is its place in
\* the order.
SortedList(n) == [i \in 1..n |-> i]

\* The first call of a walk: without pagination params (a request without
\* params), or with params that hold no cursor.
FirstCalls == {NoPagination, Pagination(NoCursor)}

\* One call of the list operation: the page joins the pages read so far,
\* and the next call passes the cursor this one returned.
NextPage ==
    /\ ~walk.done
    /\ LET result == list_page(walk.items, walk.pagination)
       IN walk' = [walk EXCEPT !.pages = Append(@, result.page),
                               !.pagination = Pagination(result.next_cursor),
                               !.done = ~result.next_cursor.some]
    /\ UNCHANGED <<handlerVars, boot, managerVars, taskVars, transportVars,
                   http, call, registry, posts, lifeVars>>

InitPages ==
    /\ initialized = FALSE
    /\ active_requests = {}
    /\ boot = 0
    /\ resources = {}
    /\ providers = {}
    /\ subscriptions = <<>>
    /\ tools = {}
    /\ handlers = {}
    /\ tools_enabled = TRUE
    /\ prompts = {}
    /\ generators = {}
    /\ pc = [t \in Tasks |-> "idle"]
    /\ msg = [t \in Tasks |-> NoMessage]
    /\ cur = [t \in Tasks |-> NoMessage]
    /\ batch = [t \in Tasks |-> NoBatch]
    /\ res = [t \in Tasks |-> OkUnit]
    /\ ret = [t \in Tasks |-> NoRet]
    /\ cors_origins = DefaultCorsOrigins
    /\ sessions = <<>>
    /\ minted = 0
    /\ now = 0
    /\ expired_sessions = [pc |-> "sleep", ids |-> {}]
    /\ http = [t \in Tasks |-> NoHttp]
    /\ call = NoCall
    /\ registry = <<>>
    /\ posts = NoPosts
    /\ InitLife
    /\ \E n \in 0..MaxItems, first \in FirstCalls :
          walk = [items |-> SortedList(n), first |-> first, pagination |-> first,
                  pages |-> <<>>, done |-> FALSE]

NextPages == NextPage

SpecPages == InitPages /\ [][NextPages]_vars

\* ------------------------------------------------------------------------
\* Specification of the handoff from the HTTP transport to the dispatcher:
\* the POSTs that actix-web has handed to handle_streamable_http_post and
\* that it has not answered yet. Each runs in a task of its own.
\* ------------------------------------------------------------------------

\* The POSTs in flight the model follows: one more than fit the channel.
MaxPending == channel_capacity + 1

\* The statuses handle_streamable_http_post answers with.
PostStatuses == {200, 202, 400, 403, 500, 501}

\* A POST enters handle_streamable_http_post. The handler reads no channel
\* and sends nothing into message_sender; it awaits the dispatcher itself
\* (state.protocol_handler), whatever the number of POSTs doing the same.
PostArrives ==
    /\ posts.pending < MaxPending
    /\ posts' = [posts EXCEPT !.pending = @ + 1]
    /\ UNCHANGED <<handlerVars, boot, managerVars, taskVars, transportVars,
                   http, call, walk, registry, lifeVars>>

\* handle_streamable_http_post returns its response.
PostAnswered(status) ==
    /\ posts.pending > 0
    /\ posts' = [posts EXCEPT !.pending = @ - 1, !.status = status]
    /\ UNCHANGED <<handlerVars, boot, managerVars, taskVars, transportVars,
                   http, call, walk, registry, lifeVars>>

NextHandoff ==
    \/ PostArrives
    \/ \E status \in PostStatuses : PostAnswered(status)

SpecHandoff == Init /\ [][NextHandoff]_vars

\* ------------------------------------------------------------------------
\* Direct calls of the SessionManager (transport/session.rs), with the clock
\* ------------------------------------------------------------------------

exceptSessions ==
    <<handlerVars, boot, managerVars, taskVars, cors_origins, minted,
      expired_sessions, http, walk, registry, posts, lifeVars>>

\* SessionManager::add_session of Session::new(id)
AddSession(id) ==
    /\ sessions' = add_session(sessions, NewSession(id))
    /\ call' = [op |-> "add_session", id |-> id]
    /\ UNCHANGED <<now, exceptSessions>>

\* SessionManager::touch_session
TouchSession(id) ==
    /\ sessions' = touch_session(sessions, id)
    /\ call' = [op |-> "touch_session", id |-> id,
                result |-> id \in DOMAIN sessions]
    /\ UNCHANGED <<now, exceptSessions>>

\* SessionManager::remove_session
RemoveSession(id) ==
    /\ sessions' = remove_session(sessions, id)
    /\ call' = [op |-> "remove_session", id |-> id,
                result |-> id \in DOMAIN sessions]
    /\ UNCHANGED <<now, exceptSessions>>

\* SessionManager::get_session
GetSession(id) ==
    /\ call' = [op |-> "get_session", id |-> id,
                result |-> get_session(sessions, id)]
    /\ UNCHANGED <<sessions, now, exceptSessions>>

\* SessionManager::cleanup_expired_sessions; before is the store and at the
\* instant the call found.
CleanupExpiredSessions ==
    /\ sessions' = cleanup_expired_sessions(sessions, SessionTimeout).sessions
    /\ call' = [op |-> "cleanup_expired_sessions", before |-> sessions,
                at |-> now,
                result |-> cleanup_expired_sessions(sessions, SessionTimeout).count]
    /\ UNCHANGED <<now, exceptSessions>>

\* Time passes between the calls.
SessionTick ==
    /\ now < MaxTime
    /\ now' = now + 1
    /\ UNCHANGED <<sessions, call, exceptSessions>>

\* The ids of the sessions the callers make.
SessionIds == 1..MaxSessions

NextSessions ==
    \/ \E id \in SessionIds : AddSession(id)
    \/ \E id \in SessionIds : TouchSession(id)
    \/ \E id \in SessionIds : RemoveSession(id)
    \/ \E id \in SessionIds : GetSession(id)
    \/ CleanupExpiredSessions
    \/ SessionTick

SpecSessions == Init /\ [][NextSessions]_vars

\* ------------------------------------------------------------------------
\* The SessionManager with its cleanup task, from SessionManager::new to
\* stop(): callers add and touch sessions while the task takes its turns.
\* ------------------------------------------------------------------------

\* SessionManager::stop: the handle in cleanup_handle is taken and, when
\* there is one, its task aborted; then the store is cleared.
Stop ==
    /\ ~cleanup.stopped
    /\ cleanup' = [handle |-> FALSE,
                   aborted |-> cleanup.aborted \/ cleanup.handle,
                   stopped |-> TRUE]
    /\ sessions' = <<>>
    /\ call' = [op |-> "stop", before |-> sessions]
    /\ UNCHANGED <<handlerVars, boot, managerVars, taskVars, cors_origins, minted,
                   now, expired_sessions, http, walk, registry, posts,
                   provider_hooks, subscribing, server>>

NextManager ==
    \/ \E id \in SessionIds : AddSession(id)
    \/ \E id \in SessionIds : TouchSession(id)
    \/ SessionTick
    \/ CleanupCollect
    \/ CleanupRemove
    \/ Stop

SpecManager == Init /\ [][NextManager]_vars

\* ------------------------------------------------------------------------
\* The ResourceManager under concurrent subscribe and unsubscribe calls:
\* each call is a sequence of lock sections, and the sections of two calls
\* interleave.
\* ------------------------------------------------------------------------

exceptSubscribing ==
    <<handlerVars, boot, resources, providers, tools, handlers, tools_enabled,
      prompts, generators, msg, cur, batch, res, ret, transportVars, http,
      call, walk, registry, posts, cleanup, server>>

\* The hook the providers that can handle the URI are called with; the
\* state stays as it is when no provider can handle it.
notify_providers(uri, hook) ==
    IF subscribe_hooks(uri) = {} THEN provider_hooks
    ELSE [u \in DOMAIN provider_hooks \cup {uri} |->
             IF u = uri THEN hook ELSE provider_hooks[u]]

\* subscribe, first section: under the write lock of the subscriptions the
\* client is added to the list of the URI.
SubscribeAdd(t, uri, client_id) ==
    /\ pc[t] = "idle"
    /\ subscriptions' = subscribe(subscriptions, uri, client_id)
    /\ subscribing' = [subscribing EXCEPT ![t] =
                          [op |-> "subscribe", uri |-> uri, client_id |-> client_id]]
    /\ pc' = [pc EXCEPT ![t] = "subscribe_notify"]
    /\ UNCHANGED <<provider_hooks, exceptSubscribing>>

\* subscribe, second section: under the read lock of the providers the
\* subscribe hooks are called; the call returns.
SubscribeNotify(t) ==
    /\ pc[t] = "subscribe_notify"
    /\ provider_hooks' = notify_providers(subscribing[t].uri, "subscribe")
    /\ subscribing' = [subscribing EXCEPT ![t] = NotSubscribing]
    /\ pc' = [pc EXCEPT ![t] = "idle"]
    /\ UNCHANGED <<subscriptions, exceptSubscribing>>

\* unsubscribe, first section: under the write lock the client is removed,
\* and the entry of the URI with its last client.
UnsubscribeRemove(t, uri, client_id) ==
    /\ pc[t] = "idle"
    /\ subscriptions' = unsubscribe(subscriptions, uri, client_id)
    /\ subscribing' = [subscribing EXCEPT ![t] =
                          [op |-> "unsubscribe", uri |-> uri, client_id |-> client_id]]
    /\ pc' = [pc EXCEPT ![t] = "unsubscribe_check"]
    /\ UNCHANGED <<provider_hooks, exceptSubscribing>>

\* unsubscribe, second section: under the read lock has_subscribers is
\* read; with subscribers left the call returns.
UnsubscribeCheck(t) ==
    /\ pc[t] = "unsubscribe_check"
    /\ IF subscribing[t].uri \in DOMAIN subscriptions
       THEN /\ pc' = [pc EXCEPT ![t] = "idle"]
            /\ subscribing' = [subscribing EXCEPT ![t] = NotSubscribing]
       ELSE /\ pc' = [pc EXCEPT ![t] = "unsubscribe_notify"]
            /\ UNCHANGED subscribing
    /\ UNCHANGED <<subscriptions, provider_hooks, exceptSubscribing>>

\* unsubscribe, third section: the unsubscribe hooks are called; the call
\* returns.
UnsubscribeNotify(t) ==
    /\ pc[t] = "unsubscribe_notify"
    /\ provider_hooks' = notify_providers(subscribing[t].uri, "unsubscribe")
    /\ subscribing' = [subscribing EXCEPT ![t] = NotSubscribing]
    /\ pc' = [pc EXCEPT ![t] = "idle"]
    /\ UNCHANGED <<subscriptions, exceptSubscribing>>

\* A ResourceManager with the SimpleTextProvider registered, before the
\* first subscription.
InitSubscribing ==
    /\ initialized = FALSE
    /\ active_requests = {}
    /\ boot = 0
    /\ resources = {}
    /\ providers = {"simple-text"}
    /\ subscriptions = <<>>
    /\ tools = {}
    /\ handlers = {}
    /\ tools_enabled = TRUE
    /\ prompts = {}
    /\ generators = {}
    /\ pc = [t \in Tasks |-> "idle"]
    /\ msg = [t \in Tasks |-> NoMessage]
    /\ cur = [t \in Tasks |-> NoMessage]
    /\ batch = [t \in Tasks |-> NoBatch]
    /\ res = [t \in Tasks |-> OkUnit]
    /\ ret = [t \in Tasks |-> NoRet]
    /\ cors_origins = DefaultCorsOrigins
    /\ sessions = <<>>
    /\ minted = 0
    /\ now = 0
    /\ expired_sessions = [pc |-> "sleep", ids |-> {}]
    /\ http = [t \in Tasks |-> NoHttp]
    /\ call = NoCall
    /\ walk = NoWalk
    /\ posts = NoPosts
    /\ registry = <<>>
    /\ InitLife

NextSubscribing ==
    \/ \E t \in Tasks, uri \in SubscribedUris, client_id \in Clients :
          SubscribeAdd(t, uri, client_id)
    \/ \E t \in Tasks : SubscribeNotify(t)
    \/ \E t \in Tasks, uri \in SubscribedUris, client_id \in Clients :
          UnsubscribeRemove(t, uri, client_id)
    \/ \E t \in Tasks : UnsubscribeCheck(t)
    \/ \E t \in Tasks : UnsubscribeNotify(t)

SpecSubscribing == InitSubscribing /\ [][NextSubscribing]_vars

\* ------------------------------------------------------------------------
\* McpServer::run: the message loop of start(), the signal task and the
\* transports that send into the manager's channel.
\* ------------------------------------------------------------------------

exceptServer ==
    <<handlerVars, boot, managerVars, taskVars, transportVars, http, call,
      walk, registry, posts, cleanup, provider_hooks, subscribing>>

\* start() up to its loop: running is set, and TransportManager::start
\* spawns the forwarding task of the transport with a clone of the
\* manager's sender.
Start ==
    /\ server.loop = "new"
    /\ ~server.running
    /\ server' = [server EXCEPT !.running = TRUE, !.loop = "recv",
                                !.senders = @ + 1]
    /\ UNCHANGED exceptServer

\* The signal task of run(): after SIGTERM or SIGINT it clears running.
Signal ==
    /\ server.loop # "new"
    /\ server.running
    /\ server' = [server EXCEPT !.running = FALSE]
    /\ UNCHANGED exceptServer

\* The forwarding task sends a message of the transport into the channel;
\* a full channel makes it wait.
Forward ==
    /\ server.loop # "new"
    /\ server.senders > 1
    /\ server.queued < manager_channel_capacity
    /\ server' = [server EXCEPT !.queued = @ + 1]
    /\ UNCHANGED exceptServer

\* message_receiver.recv().await returns: Some(message) when the channel
\* holds one, None when it is empty and every sender is dropped, and else
\* it waits. With a message the loop reads running: when it is cleared the
\* loop breaks, else the message is handled and the loop goes on.
Recv ==
    /\ server.loop = "recv"
    /\ ~(server.queued = 0 /\ server.senders > 0)
    /\ server' = IF server.queued = 0
                 THEN [server EXCEPT !.loop = "ended"]
                 ELSE [server EXCEPT !.queued = @ - 1,
                                     !.loop = IF server.running THEN "recv"
                                              ELSE "ended"]
    /\ UNCHANGED exceptServer

NextServer ==
    \/ Start
    \/ Signal
    \/ Forward
    \/ Recv

\* The runtime runs start() and the signal task whenever they can take a
\* step; whether a transport has a message to forward is up to the clients.
SpecServer ==
    /\ Init
    /\ [][NextServer]_vars
    /\ WF_vars(Start) /\ WF_vars(Recv)

\* ------------------------------------------------------------------------
\* Properties of the dispatcher
\* ------------------------------------------------------------------------

\* The error a gated route returns before initialization.
NotInitialized == Err(McpError("Protocol", "Server not initialized"))

\* C1: a request routed while the initialized flag is false gets, for each
\* of the gated methods, the error response with code -32603 whose message
\* contains "Server not initialized", and the route changes no state of the
\* managers or the flag; initialize and ping routed in such a state get a
\* result that is not this error.
C1_GateBeforeInitialize ==
    [][\A t \in Tasks :
        (pc[t] = "tracked" /\ pc'[t] = "routed" /\ ~initialized) =>
            /\ cur[t].method \in GatedMethods =>
                  /\ res'[t] = NotInitialized
                  /\ respond(cur[t], res'[t]).error.code = -32603
                  /\ respond(cur[t], res'[t]).error.message[2]
                        = "Server not initialized"
                  /\ respond(cur[t], res'[t]).result = Absent
                  /\ managerVars' = managerVars
                  /\ initialized' = initialized
            /\ cur[t].method \in {M_initialize, M_ping} =>
                  res'[t] # NotInitialized]_vars

\* A gated request was routed and refused while the flag is false.
C1_Witness ==
    \E t \in Tasks :
        /\ pc[t] = "routed" /\ ~initialized
        /\ cur[t].method \in GatedMethods
        /\ res[t] = NotInitialized

\* C2: a call of handle_message with a Request that passes validation
\* returns a Response, and its id is the id of the request, whatever the
\* other callers do meanwhile.
C2_OneResponseSameId ==
    \A t \in Tasks :
        (pc[t] = "done" /\ msg[t].kind = "Request" /\ validate(msg[t]).ok) =>
            /\ ret[t].tag = "Ok"
            /\ ret[t].kind = "Response"
            /\ ret[t].response.id = msg[t].id

\* A request was answered while another caller's request with the same id
\* is in flight.
C2_Witness ==
    /\ pc[Caller] = "done" /\ msg[Caller].kind = "Request"
    /\ ret[Caller].kind = "Response" /\ ret[Caller].response.id = "a"
    /\ pc[Peer] = "tracked" /\ cur[Peer].id = "a"

\* C3: no step takes the initialized flag from true back to false.
C3_InitializedMonotonic == [][initialized => initialized']_vars

\* The flag is set and an initialize whose parameters were refused has
\* been routed.
C3_Witness ==
    /\ initialized
    /\ \E t \in Tasks :
          pc[t] = "routed" /\ cur[t].method = M_initialize /\ ~res[t].ok

\* C4: a call of handle_message with a Notification or a Response returns
\* either an error or no message.
C4_NoReplyToNotification ==
    \A t \in Tasks :
        (pc[t] = "done" /\ msg[t].kind \in {"Notification", "Response"}) =>
            ret[t].tag = "Err" \/ (ret[t].tag = "Ok" /\ ret[t].kind = "None")

\* A notification and a response were handled, one without an error.
C4_Witness ==
    /\ pc[Caller] = "done" /\ msg[Caller].kind = "Response" /\ ret[Caller] = RetNone
    /\ pc[Peer] = "done" /\ msg[Peer].kind = "Notification" /\ ret[Peer] = RetNone

\* ------------------------------------------------------------------------
\* Properties of the HTTP transport
\* ------------------------------------------------------------------------

\* Task t takes an HTTP request of one of the verbs in this step.
Serves(t, verbs) ==
    pc[t] = "idle" /\ pc'[t] # "idle" /\ http'[t].req.verb \in verbs

\* The response says the request was refused for its headers.
HeaderRejection(resp) ==
    \/ resp.status \in {403, 405}
    \/ resp.status = 400 /\ resp.body.text = "Accept header"

\* C5: every 200 reply to a POST with one request, and every 200 event
\* stream reply to a GET, has an Mcp-Session-Id header, and it is the id of
\* the session get_or_create_session returned for the request.
C5_ReplyCarriesSessionId ==
    \A t \in Tasks :
        (pc[t] = "done" /\ http[t].req.verb \in {"POST", "GET"}
         /\ http[t].resp.status = 200) =>
            /\ http[t].resp.session_id.some
            /\ http[t].resp.session_id = http[t].session_id

\* C6: a POST or GET that passes the Origin and Accept checks leaves the
\* store unchanged when its header names a stored session, and otherwise
\* adds exactly one session, under an id never issued before, and changes
\* no other session.
C6_OneSessionPerUnknownClient ==
    [][\A t \in Tasks :
        (Serves(t, {"POST", "GET"}) /\ ~HeaderRejection(http'[t].resp)) =>
            LET req == http'[t].req
            IN IF req.session_id.some /\ req.session_id.id \in DOMAIN sessions
               THEN sessions' = sessions
               ELSE \E id \in DOMAIN sessions' :
                       /\ id \notin 0 .. minted
                       /\ DOMAIN sessions' = DOMAIN sessions \cup {id}
                       /\ Cardinality(DOMAIN sessions')
                             = Cardinality(DOMAIN sessions) + 1
                       /\ \A k \in DOMAIN sessions : sessions'[k] = sessions[k]]_vars

\* A request naming the stored session 1 was served and made no session,
\* after requests without a known id had made two.
C6_Witness ==
    /\ pc[Caller] = "done"
    /\ http[Caller].req.verb \in {"POST", "GET"}
    /\ http[Caller].req.session_id = Some(1)
    /\ http[Caller].session_id = Some(1)
    /\ DOMAIN sessions = {1, 2}

\* C7: a POST or GET that passes the header checks and names a stored
\* session that is expired gets a new session, as for an unknown id.
C7_ExpiredAsUnknown ==
    [][\A t \in Tasks :
        (Serves(t, {"POST", "GET"}) /\ ~HeaderRejection(http'[t].resp)
         /\ http'[t].req.session_id.some
         /\ http'[t].req.session_id.id \in DOMAIN sessions
         /\ is_expired(sessions[http'[t].req.session_id.id], SessionTimeout)) =>
            /\ http'[t].session_id # http'[t].req.session_id
            /\ http'[t].session_id.id \in DOMAIN sessions' \ DOMAIN sessions]_vars

\* C8: a DELETE whose header names a stored session is answered 200 and
\* the session is removed; any other DELETE is answered 400 and leaves the
\* store as it is.
C8_DeleteOnlyStored ==
    [][\A t \in Tasks :
        Serves(t, {"DELETE"}) =>
            LET req == http'[t].req
            IN IF req.session_id.some /\ req.session_id.id \in DOMAIN sessions
               THEN /\ http'[t].resp.status = 200
                    /\ DOMAIN sessions' = DOMAIN sessions \ {req.session_id.id}
               ELSE /\ http'[t].resp.status = 400
                    /\ sessions' = sessions]_vars

\* The rejections for headers of the POST or GET that task t takes in this
\* step, given whether its Origin counts as a mismatch: 403 for a mismatch,
\* whatever the Accept header; otherwise 400 for a POST, or 405 for a GET,
\* whose Accept header lacks a media type the verb requires; and with each
\* of them no session made, no state of the dispatcher or of the managers
\* touched, no request entered, and no JSON-RPC body.
RejectedForHeaders(t, mismatch) ==
    LET req == http'[t].req
        resp == http'[t].resp
        lacks == IF req.verb = "POST"
                 THEN ~({"application/json", "text/event-stream"} \subseteq req.accept)
                 ELSE "text/event-stream" \notin req.accept
        status_only ==
            /\ pc'[t] = "done"
            /\ resp.body.kind # "JsonRpc"
            /\ resp.session_id = None
            /\ sessions' = sessions /\ minted' = minted
            /\ handlerVars' = handlerVars /\ managerVars' = managerVars
            /\ cur' = cur /\ ret' = ret
    IN /\ mismatch => resp.status = 403 /\ status_only
       /\ (~mismatch /\ lacks) =>
             resp.status = (IF req.verb = "POST" THEN 400 ELSE 405) /\ status_only

NotificationsOf(body) ==
    LET parsed == parse_message_or_batch(body)
    IN IF ~parsed.ok THEN {}
       ELSE {parsed.value[i] : i \in {j \in DOMAIN parsed.value :
                /\ parsed.value[j].kind = "Notification"
                /\ validate_notification(parsed.value[j]).ok}}

\* C10: after a POST answered 202 whose body has notifications/initialized
\* the initialized flag is true, and after one whose body has
\* notifications/cancelled for a request id, the id is not in
\* active_requests.
C10_NotificationsDispatched ==
    [][\A t \in Tasks :
        (Serves(t, {"POST"}) /\ http'[t].resp.status = 202) =>
            \A n \in NotificationsOf(http'[t].req.body) :
                /\ n.method = N_initialized => initialized'
                /\ (n.method = N_cancelled /\ n.params.has) =>
                      n.params.requestId \notin active_requests']_vars

\* The request is well formed and its method has no route.
Unrouted(request) ==
    /\ request.kind = "Request"
    /\ validate_request(request).ok
    /\ request.method \notin RoutedMethods

\* The response is the error -32601 for the request.
IsMethodNotFound(response, request) ==
    /\ response.id = request.id
    /\ response.result = Absent
    /\ response.error.code = -32601

\* C11: a well formed request whose method has no route, with an approved
\* prefix or without one, is answered by handle_message with the error
\* response -32601 carrying its id, and by a POST of the one request with
\* status 200 and that response as body.
C11_UnknownMethodNotFound ==
    \A t \in Tasks :
        /\ (pc[t] = "done" /\ Unrouted(msg[t])) =>
              /\ ret[t].tag = "Ok" /\ ret[t].kind = "Response"
              /\ IsMethodNotFound(ret[t].response, msg[t])
        /\ (pc[t] = "done" /\ http[t].req.verb = "POST" /\ Unrouted(cur[t])) =>
              /\ http[t].resp.status = 200
              /\ IsMethodNotFound(http[t].resp.body.response, cur[t])

\* C12: handle_message on an empty batch returns the InvalidRequest error
\* and no responses, and a POST whose body is the empty array and whose
\* headers pass is answered with a status that refuses it.
C12_EmptyBatchRejected ==
    \A t \in Tasks :
        /\ (pc[t] = "done" /\ msg[t] = JsonRpcBatch(<<>>)) =>
              /\ ret[t].tag = "Err"
              /\ ret[t].err.variant = "InvalidRequest"
              /\ batch[t].responses = <<>>
        /\ (pc[t] = "done" /\ http[t].req.verb = "POST"
            /\ http[t].req.body = JsonArray(<<>>)
            /\ ~HeaderRejection(http[t].resp)) =>
              http[t].resp.status \notin {200, 202}

\* ------------------------------------------------------------------------
\* Properties of the tool manager
\* ------------------------------------------------------------------------

\* The latest call is a call_tool that reached a registered handler with
\* arguments the handler's validate_arguments accepts.
AcceptedCall ==
    /\ call.op = "call_tool"
    /\ tools_enabled
    /\ call.name \in tools
    /\ call.name \in handlers
    /\ validate_arguments(call.name, call.arguments).ok

\* The handlers server/features/tools.rs defines.
BuiltinHandlers == {"echo", "calculator"}

DividesByZero(arguments) ==
    /\ is_string(arguments.operation) /\ arguments.operation.s = "divide"
    /\ is_number(arguments.b) /\ arguments.b.n = 0

\* list_tools of an enabled manager returns every tool that has a definition.
ListsEveryTool ==
    (call.op = "list_tools" /\ tools_enabled) =>
        /\ call.result.ok
        /\ \A T \in tools : Contains(call.result.value, T)

\* C13 as stated: list_tools includes every tool registered with definition
\* and handler, and call_tool of such a tool returns a result with
\* is_error = false for every argument value validate_arguments accepts.
C13_AcceptedArgumentsSucceed ==
    /\ ListsEveryTool
    /\ AcceptedCall => (call.result.ok /\ ~call.result.value.is_error)

\* C13 amended: list_tools includes every registered tool, and call_tool of
\* echo or calculator with accepted arguments returns a ToolResult whose
\* is_error is true exactly for the calculator's division by zero.
C13_BuiltinAcceptedArguments ==
    /\ ListsEveryTool
    /\ (AcceptedCall /\ call.name \in BuiltinHandlers) =>
          /\ call.result.ok
          /\ call.result.value.is_error <=>
                (call.name = "calculator" /\ DividesByZero(call.arguments))

\* The calculator, registered with definition and handler, was called with
\* accepted arguments that divide by zero, and another tool is listed.
C13_Witness ==
    /\ AcceptedCall
    /\ call.name = "calculator"
    /\ call.arguments = CalculatorArgs(JString("divide"), JNumber(5), JNumber(0))
    /\ call.result = Ok(ToolResult_error_text("Division by zero"))
    /\ "echo" \in tools

\* ------------------------------------------------------------------------
\* Properties of tools/call over HTTP
\* ------------------------------------------------------------------------

\* C14: on a server with its defaults registered and initialize done, the
\* POST of tools/call for the calculator is answered with a JSON-RPC result:
\* isError false for add 5 3, and isError true with "Division by zero" for
\* divide 5 0.
C14_CalculatorAnswered ==
    \A t \in Tasks :
        (/\ pc[t] = "done"
         /\ http[t].req.verb = "POST"
         /\ boot = BootSteps
         /\ initialized
         /\ ~HeaderRejection(http[t].resp)) =>
            /\ http[t].req.body = CalculatorBody("add", 5, 3) =>
                  /\ http[t].resp.status = 200
                  /\ http[t].resp.body.response.result =
                        tool_result_json(ToolResult_text("5 add 3 = 8"))
            /\ http[t].req.body = CalculatorBody("divide", 5, 0) =>
                  /\ http[t].resp.status = 200
                  /\ http[t].resp.body.response.result =
                        tool_result_json(ToolResult_error_text("Division by zero"))

\* ------------------------------------------------------------------------
\* Properties of call_tool's errors
\* ------------------------------------------------------------------------

Handling == {p \in providers : can_handle(p, call.uri)}

\* C16: subscribe invokes the subscribe hook of a provider that handles the
\* URI exactly when the URI's subscriber set goes from empty to non-empty;
\* a second subscriber or a repeated subscribe does not invoke it again.
C16_HookOnFirstSubscriber ==
    call.op = "subscribe" =>
        \A p \in Handling :
            p \in call.hooked <=> call.uri \notin DOMAIN call.before

\* C17: unsubscribe invokes the unsubscribe hook of a provider that handles
\* the URI exactly when the call removes the URI's last subscriber; not for
\* a URI or client that was not subscribed, nor while subscribers remain.
C17_HookOnLastSubscriber ==
    call.op = "unsubscribe" =>
        \A p \in Handling :
            p \in call.hooked <=>
                (call.uri \in DOMAIN call.before /\ call.uri \notin DOMAIN subscriptions)

\* C18: every URI in the subscription map is claimed by at least one
\* registered provider; a subscribe for a URI no provider handles adds no
\* entry.
C18_SubscribedUrisAreHandled ==
    \A uri \in DOMAIN subscriptions : \E p \in providers : can_handle(p, uri)

UriRank(uri) == CHOOSE k \in DOMAIN UrisSorted : UrisSorted[k] = uri

\* C20: list_resources returns each URI at most once, in ascending order of
\* URI: the union of the registered resources and what every provider
\* lists.
C20_ListedOnce ==
    call.op = "list_resources" =>
        LET listed == call.result.value
        IN /\ \A i, j \in DOMAIN listed : listed[i] = listed[j] => i = j
           /\ \A i, j \in DOMAIN listed :
                 i < j => UriRank(listed[i]) <= UriRank(listed[j])
           /\ {listed[i] : i \in DOMAIN listed} =
                 resources \cup {u \in Uris : \E p \in providers :
                                    Contains(provider_list_resources(p), u)}

\* ------------------------------------------------------------------------
\* Properties of pagination
\* ------------------------------------------------------------------------

RECURSIVE Concat(_)
\* The pages joined in the order they were read.
Concat(pages) ==
    IF pages = <<>> THEN <<>> ELSE Head(pages) \o Concat(Tail(pages))

\* The walk has read the full sorted list exactly once and in its order,
\* in no more pages than the list has full pages, plus one.
WalkedOnce ==
    /\ walk.done => Concat(walk.pages) = walk.items
    /\ Len(walk.pages) <= (Len(walk.items) \div page_size) + 1
    /\ ~walk.done => Len(Concat(walk.pages)) = page_size * Len(walk.pages)

C21_PagesWalkedOnce ==
    /\ WalkedOnce
    /\ walk.first.some =>
          \A i \in DOMAIN walk.pages : Len(walk.pages[i]) <= page_size
    /\ (~walk.first.some /\ walk.pages # <<>>) => walk.pages = <<walk.items>>

\* A walk over more than two pages' worth of items has ended after three
\* calls.
C21_Witness ==
    /\ walk.done
    /\ walk.first.some
    /\ Len(walk.items) > 2 * page_size
    /\ Len(walk.pages) = 3

\* ------------------------------------------------------------------------
\* Properties of the tool registry
\* ------------------------------------------------------------------------

\* The step is an unregister_tool of the name the call before it, a
\* register_tool, was given.
RegisterThenUnregister ==
    /\ call.op = "register_tool"
    /\ call'.op = "unregister_tool"
    /\ call'.name = call.name

\* Neither register_tool nor unregister_tool changes the handler map.
HandlersKept ==
    call'.op \in {"register_tool", "unregister_tool"} => handlers' = handlers

\* C22 as stated: register_tool(t) followed by unregister_tool(t.name)
\* leaves the tool definitions as they were before the two calls, in every
\* state of the manager, and neither call changes the handler map.
C22_RegisterUnregister ==
    [][(RegisterThenUnregister => tools' = call.before) /\ HandlersKept]_vars

\* C22 amended: the two calls leave the definitions as they were without
\* the name t.name; that is as they were exactly when no tool of that name
\* was registered before. Neither call changes the handler map.
C22_RegisterUnregisterFresh ==
    [][/\ RegisterThenUnregister =>
            /\ tools' = call.before \ {call.name}
            /\ call.name \notin call.before => tools' = call.before
       /\ HandlersKept]_vars

\* unregister_tool removed the one tool of the registry, and a handler is
\* registered.
C22_Witness ==
    /\ call.op = "unregister_tool"
    /\ call.removed
    /\ tools = {}
    /\ handlers # {}

\* ------------------------------------------------------------------------
\* Properties of the handler registry and of discovery
\* ------------------------------------------------------------------------

\* No two registrations share a name, and the priorities do not increase
\* along the Vec.
RegistryOrdered ==
    /\ \A i, j \in DOMAIN registry : registry[i].name = registry[j].name => i = j
    /\ \A i, j \in DOMAIN registry : i < j => registry[i].priority >= registry[j].priority

\* A register call returns a Tool error exactly when the name is present,
\* and then leaves the registry as it is.
DuplicateRejected ==
    (call'.op = "register" /\ (call.op # "register" \/ call' # call)) =>
        /\ ~call'.result.ok <=> call'.registration.name \in Names(registry)
        /\ ~call'.result.ok =>
              (call'.result.err.variant = "Tool" /\ registry' = registry)

\* C23: after any sequence of register and clear calls from the threads the
\* registry holds no two registrations of one name and is ordered by
\* non-increasing priority; a register of a name that is present returns a
\* Tool error and leaves the registry unchanged.
C23_RegistryUniqueAndOrdered ==
    [](RegistryOrdered) /\ [][DuplicateRejected]_vars

\* A register was refused for a name that is present, in a registry of
\* three registrations with different priorities.
C23_Witness ==
    /\ call.op = "register"
    /\ ~call.result.ok
    /\ Len(registry) = 3
    /\ registry[1].priority > registry[3].priority

\* The rule of the claim for one registration.
Enabled(R, config) ==
    IF ~config.some THEN R.is_builtin
    ELSE IF \E i \in DOMAIN config.handlers : config.handlers[i].name = R.name
    THEN LET last == CHOOSE i \in DOMAIN config.handlers :
                        /\ config.handlers[i].name = R.name
                        /\ \A j \in DOMAIN config.handlers :
                              config.handlers[j].name = R.name => j <= i
         IN config.handlers[last].enabled
    ELSE IF R.is_builtin /\ config.auto_discover_builtin
    THEN config.enable_all_by_default
    ELSE FALSE

C29_BuiltinsRegistered ==
    call.op = "register_builtin_handlers" =>
        {"echo", "calculator"} \subseteq Names(registry)

\* ------------------------------------------------------------------------
\* Cancellation
\* ------------------------------------------------------------------------

\* Task t handles, in this step, a notifications/cancelled whose params
\* name the request id r.
Cancels(t, r) ==
    /\ pc[t] = "idle" /\ pc'[t] = "done"
    /\ msg'[t].kind = "Notification"
    /\ msg'[t].method = N_cancelled
    /\ validate_notification(msg'[t]).ok
    /\ msg'[t].params.has
    /\ msg'[t].params.requestId = r

\* Task u is in handle_request with a request of id r, between the
\* insertion into active_requests and the removal.
BeingRouted(u, r) ==
    /\ pc[u] \in {"tracked", "routed"}
    /\ cur[u].id = r

\* The call of task u has returned one response, with id r.
Answered(u, r) ==
    /\ pc[u] = "done"
    /\ ret[u].tag = "Ok"
    /\ ret[u].kind = "Response"
    /\ ret[u].response.id = r

\* C25: handling notifications/cancelled with params.requestId = r removes
\* r from active_requests and changes nothing of the other tasks' calls; a
\* request of id r that is being routed still completes and returns one
\* response with id r.
C25_CancelInterruptsNothing ==
    /\ [][\A t \in Tasks, r \in ValidIds :
            Cancels(t, r) =>
               /\ r \notin active_requests'
               /\ \A u \in Tasks \ {t} :
                     /\ pc'[u] = pc[u] /\ cur'[u] = cur[u]
                     /\ res'[u] = res[u] /\ ret'[u] = ret[u]]_vars
    /\ \A u \in Tasks, r \in ValidIds : BeingRouted(u, r) ~> Answered(u, r)

\* The peer has handled the cancellation of "a" while the caller's request
\* of id "a" is tracked and not yet routed; the id has left active_requests.
C25_Witness ==
    /\ pc[Peer] = "done"
    /\ msg[Peer] = JsonRpcNotification(JSONRPC_VERSION, N_cancelled, CancelParams("a"))
    /\ BeingRouted(Caller, "a")
    /\ pc[Caller] = "tracked"
    /\ "a" \notin active_requests

\* ------------------------------------------------------------------------
\* Batches
\* ------------------------------------------------------------------------

\* The element of a batch is deserialized and handled without error: a
\* request that passes the validation of handle_request (its handler may
\* fail, which makes an error response), a notification or a response that
\* passes its validation.
HandledWithoutError(item) ==
    /\ from_value(item).ok
    /\ LET message == from_value(item).value
       IN CASE message.kind = "Request" -> validate(message).ok
            [] message.kind = "Notification" ->
                  /\ validate_notification(message).ok
                  /\ validate_method_name(message.method).ok
            [] message.kind = "Response" -> validate_response(message).ok
            [] OTHER -> FALSE

\* The request elements of a batch, in the order of the batch.
RequestElements(items) ==
    SelectSeq(items, LAMBDA item : from_value(item).value.kind = "Request")

\* C26: for a non-empty batch whose elements are all handled without error,
\* handle_message returns a batch with one response per request element, in
\* the order of the request elements, and nothing for the notifications and
\* responses; a batch without a request returns no message.
C26_BatchResponsesInOrder ==
    \A t \in Tasks :
        (/\ pc[t] = "done" /\ msg[t].kind = "Batch" /\ msg[t].items # <<>>
         /\ \A i \in DOMAIN msg[t].items : HandledWithoutError(msg[t].items[i])) =>
            LET requests == RequestElements(msg[t].items)
            IN /\ ret[t].tag = "Ok"
               /\ requests = <<>> => ret[t] = RetNone
               /\ requests # <<>> =>
                     /\ ret[t].kind = "Batch"
                     /\ Len(ret[t].batch) = Len(requests)
                     /\ \A i \in DOMAIN requests :
                           /\ ret[t].batch[i].jsonrpc = JSONRPC_VERSION
                           /\ ret[t].batch[i].id = requests[i].id

\* A batch of MaxBatch elements that begins and ends with requests of
\* different ids, two requests in all, has returned its two responses.
C26_Witness ==
    /\ pc[Caller] = "done" /\ msg[Caller].kind = "Batch"
    /\ Len(msg[Caller].items) = MaxBatch
    /\ \A i \in DOMAIN msg[Caller].items : HandledWithoutError(msg[Caller].items[i])
    /\ Len(RequestElements(msg[Caller].items)) = 2
    /\ msg[Caller].items[1].id # msg[Caller].items[MaxBatch].id
    /\ ret[Caller].kind = "Batch"

\* ------------------------------------------------------------------------
\* The handoff from the HTTP transport to the dispatcher
\* ------------------------------------------------------------------------

\* C27: the requests pending between the HTTP transport and the dispatcher
\* never exceed the capacity of the transport's queue, a POST that finds the
\* queue full being refused with 503.
C27_HandoffBounded ==
    /\ posts.pending <= channel_capacity
    /\ posts.queued <= channel_capacity

\* ------------------------------------------------------------------------
\* The initialized flag
\* ------------------------------------------------------------------------

\* Task t routes an initialize request in this step.
InitializeRouted(t) ==
    /\ pc[t] = "tracked" /\ pc'[t] = "routed"
    /\ cur[t].method = M_initialize

\* The initialize request task t routes has no params, or params that do
\* not deserialize as InitializeRequest.
InitializeRefused(t) ==
    /\ InitializeRouted(t)
    /\ (~cur[t].params.has \/ ~cur[t].params.init)

InitializeSucceeds(t) == InitializeRouted(t) /\ res'[t].ok

\* A notifications/initialized that passes the validation of
\* handle_notification.
IsInitialized(m) ==
    /\ m.kind = "Notification"
    /\ validate_notification(m).ok
    /\ validate_method_name(m.method).ok
    /\ m.method = N_initialized

\* Task t handles a notifications/initialized in this step, as the message
\* of its call or as the next element of its batch.
InitializedNotified(t) ==
    \/ pc[t] = "idle" /\ pc'[t] # "idle" /\ IsInitialized(msg'[t])
    \/ /\ pc[t] = "batch" /\ batch'[t] # batch[t]
       /\ from_value(Head(batch[t].items)).ok
       /\ IsInitialized(from_value(Head(batch[t].items)).value)

\* C28: the initialized flag changes only to true, and only in the step of
\* an initialize request that succeeds or of a handled
\* notifications/initialized, which both set it; an initialize whose params
\* are missing or do not parse gets the invalid-params error -32602 and
\* leaves the flag as it is; notifications/initialized with the flag set
\* changes nothing of the handler and its managers.
C28_InitializedFlag ==
    [][/\ initialized' # initialized =>
            /\ initialized'
            /\ \E t \in Tasks : InitializeSucceeds(t) \/ InitializedNotified(t)
       /\ \A t \in Tasks :
            /\ (InitializeSucceeds(t) \/ InitializedNotified(t)) => initialized'
            /\ InitializeRefused(t) =>
                  /\ ~res'[t].ok
                  /\ respond(cur[t], res'[t]).error.code = -32602
                  /\ initialized' = initialized
            /\ (InitializedNotified(t) /\ initialized) =>
                  /\ handlerVars' = handlerVars
                  /\ managerVars' = managerVars]_vars

\* An initialize whose params do not parse has been routed to its error and
\* the flag is still false.
C28_Witness ==
    /\ ~initialized
    /\ pc[Caller] = "routed"
    /\ cur[Caller].method = M_initialize
    /\ cur[Caller].params = EmptyParams
    /\ res[Caller].err.variant = "InvalidParams"

\* ------------------------------------------------------------------------
\* Cleanup of the expired sessions
\* ------------------------------------------------------------------------

\* The ids of the store whose session has been idle for more than the
\* timeout at the instant at.
IdleBeyondTimeout(store, at) ==
    {id \in DOMAIN store : at - store[id].last_activity > SessionTimeout}

\* C30: cleanup_expired_sessions removes exactly the sessions whose time
\* since last_activity exceeds the timeout, returns their number and leaves
\* every other session as it was; get_session on a removed id then returns
\* none.
C30_CleanupRemovesExpired ==
    [][(/\ call'.op = "cleanup_expired_sessions"
        /\ (call.op # "cleanup_expired_sessions" \/ call' # call)) =>
           LET removed == IdleBeyondTimeout(sessions, now)
           IN /\ DOMAIN sessions' = DOMAIN sessions \ removed
              /\ call'.result = Cardinality(removed)
              /\ \A id \in DOMAIN sessions' : sessions'[id] = sessions[id]
              /\ \A id \in removed : ~get_session(sessions', id)]_vars

\* A cleanup found two sessions, removed the one that was idle beyond the
\* timeout and kept the other.
C30_Witness ==
    /\ call.op = "cleanup_expired_sessions"
    /\ Cardinality(DOMAIN call.before) = 2
    /\ call.result = 1
    /\ Cardinality(DOMAIN sessions) = 1

\* ------------------------------------------------------------------------
\* The cleanup task and stop()
\* ------------------------------------------------------------------------

\* The cleanup task takes a step of a pass: it collects ids or removes them.
CleanupPass == expired_sessions' # expired_sessions

\* C31: after SessionManager.stop() has returned the store holds no
\* sessions that were there before, the cleanup task started by
\* SessionManager::new has been aborted, and it runs no further pass.
C31_StopEndsCleanup ==
    /\ [](cleanup.stopped => cleanup.aborted)
    /\ [][(cleanup.stopped /\ cleanup'.stopped) => ~CleanupPass]_vars

\* C33: the cleanup task removes only sessions that are expired at the
\* moment of removal; a session touched or added again after the task
\* collected its ids is not removed in that pass.
C33_RemovesOnlyExpired ==
    [][(expired_sessions.pc = "collected" /\ expired_sessions'.pc = "sleep") =>
          \A id \in DOMAIN sessions \ DOMAIN sessions' :
              now - sessions[id].last_activity > SessionTimeout]_vars

\* ------------------------------------------------------------------------
\* The life of a session of the HTTP transport
\* ------------------------------------------------------------------------

\* The sessions created more than the timeout ago.
OlderThanTimeout ==
    {id \in DOMAIN sessions : now - sessions[id].created_at > SessionTimeout}

\* C37: no request changes the last_activity of a session it resolves, so a
\* cleanup pass collects, and then removes, exactly the sessions created
\* more than session_timeout ago, however recently they were used; a
\* session leaves the store only in a DELETE or in the removal of a cleanup
\* pass.
C37_SessionsNeverTouched ==
    [][/\ \A id \in DOMAIN sessions \cap DOMAIN sessions' :
            sessions'[id] = sessions[id]
       /\ (expired_sessions.pc = "sleep" /\ expired_sessions'.pc = "collected") =>
            expired_sessions'.ids = OlderThanTimeout
       /\ (expired_sessions.pc = "collected" /\ expired_sessions'.pc = "sleep") =>
            DOMAIN sessions' = DOMAIN sessions \ expired_sessions.ids
       /\ ~(DOMAIN sessions \subseteq DOMAIN sessions') =>
            \/ expired_sessions.pc = "collected" /\ expired_sessions'.pc = "sleep"
            \/ Serves(Caller, {"DELETE"})]_vars

\* The session of the header of a POST that was just answered 200 is among
\* the ids the cleanup task has collected.
C37_Witness ==
    /\ pc[Caller] = "done"
    /\ http[Caller].req.verb = "POST"
    /\ http[Caller].req.session_id.some
    /\ http[Caller].resp.status = 200
    /\ http[Caller].resp.session_id = http[Caller].req.session_id
    /\ expired_sessions.pc = "collected"
    /\ http[Caller].req.session_id.id \in expired_sessions.ids
    /\ http[Caller].req.session_id.id \in DOMAIN sessions

\* ------------------------------------------------------------------------
\* The initialization gate and the sessions
\* ------------------------------------------------------------------------

\* C32: the gate is one for all sessions of the process. With the flag set
\* by any client's initialize, a gated request passes the gate under any
\* Mcp-Session-Id or none, and no step that creates, collects or removes a
\* session changes the initialized flag.
C32_GateSharedBySessions ==
    [][/\ (sessions' # sessions \/ expired_sessions' # expired_sessions) =>
            initialized' = initialized
       /\ \A t \in Tasks :
            (/\ pc[t] = "tracked" /\ pc'[t] = "routed"
             /\ initialized /\ cur[t].method \in GatedMethods) =>
                res'[t] # NotInitialized]_vars

\* With two sessions minted, a tools/list that came without a session
\* header, and so under a session made for it, has passed the gate.
C32_Witness ==
    /\ initialized
    /\ minted >= 2
    /\ pc[Caller] = "routed"
    /\ cur[Caller].method = M_tools_list
    /\ ~http[Caller].req.session_id.some
    /\ res[Caller].ok

\* ------------------------------------------------------------------------
\* The map of active requests
\* ------------------------------------------------------------------------

\* C35: active_requests holds the ids of the requests that are being routed
\* and that no notifications/cancelled has named. It is empty whenever no
\* request is being routed, it holds no id of no request, and an id leaves
\* it only in the step of a cancellation that names it or when no request
\* with this id is being routed any more, also with requests of equal ids
\* in flight.
C35_ActiveRequestsExact ==
    /\ [](active_requests \subseteq
             {cur[t].id : t \in {u \in Tasks : pc[u] \in {"tracked", "routed"}}})
    /\ [][\A r \in active_requests \ active_requests' :
             \/ \E t \in Tasks : Cancels(t, r)
             \/ ~\E u \in Tasks : pc'[u] \in {"tracked", "routed"} /\ cur'[u].id = r]_vars

\* ------------------------------------------------------------------------
\* Batches that fail
\* ------------------------------------------------------------------------

\* The error of an element that is not handled without error: the parse
\* error, or the error of the validation of its kind of message.
ElementError(item) ==
    IF ~from_value(item).ok THEN from_value(item).err
    ELSE LET message == from_value(item).value
         IN CASE message.kind = "Request" -> validate(message).err
              [] message.kind = "Notification" ->
                    IF ~validate_notification(message).ok
                    THEN validate_notification(message).err
                    ELSE validate_method_name(message.method).err
              [] OTHER -> validate_response(message).err

\* The element sets the initialized flag when it is handled.
SetsInitialized(item) ==
    /\ HandledWithoutError(item)
    /\ LET message == from_value(item).value
       IN \/ IsInitialized(message)
          \/ /\ message.kind = "Request" /\ message.method = M_initialize
             /\ message.params.has /\ message.params.init

\* The index of the first element that fails to parse or to validate; 0
\* when there is none.
FirstFailing(items) ==
    IF \A i \in DOMAIN items : HandledWithoutError(items[i]) THEN 0
    ELSE CHOOSE i \in DOMAIN items :
            /\ ~HandledWithoutError(items[i])
            /\ \A j \in 1..(i - 1) : HandledWithoutError(items[j])

\* C36: a batch stops at its first element that fails to parse or to
\* validate. handle_message returns the error of that element and no
\* response, the elements after it are left undispatched, and what the
\* elements before it changed stays: the initialized flag an element has
\* set is set.
C36_BatchStopsAtFirstError ==
    \A t \in Tasks :
        (/\ pc[t] = "done" /\ msg[t].kind = "Batch"
         /\ FirstFailing(msg[t].items) # 0) =>
            LET items == msg[t].items
                k == FirstFailing(items)
            IN /\ ret[t] = RetErr(ElementError(items[k]))
               /\ batch[t].items = SubSeq(items, k + 1, Len(items))
               /\ (\E j \in 1..(k - 1) : SetsInitialized(items[j])) => initialized

\* A batch of an initialize and an element that is no message has returned
\* the parse error, and the flag is set.
C36_Witness ==
    /\ pc[Caller] = "done" /\ msg[Caller].kind = "Batch"
    /\ Len(msg[Caller].items) = MaxBatch
    /\ FirstFailing(msg[Caller].items) = MaxBatch
    /\ SetsInitialized(msg[Caller].items[1])
    /\ ret[Caller].tag = "Err"
    /\ ret[Caller].err.variant = "ParseError"
    /\ initialized

\* ------------------------------------------------------------------------
\* The defaults and the first requests
\* ------------------------------------------------------------------------

\* C39: a request routed with the initialized flag set sees the default
\* registrations, wherever the bootstrap task stands: tools/list has
\* 'echo', tools/call of 'echo' does not fail with 'Tool not found', and
\* resources/read of text://hello finds a provider.
C39_DefaultsSeen ==
    [][\A t \in Tasks :
          (pc[t] = "tracked" /\ pc'[t] = "routed" /\ initialized) =>
             /\ cur[t].method = M_tools_list => "echo" \in tools
             /\ (cur[t].method = M_tools_call /\ cur[t].params.name = "echo") =>
                   res'[t].err.text # "Tool not found"
             /\ (cur[t].method = M_resources_read /\ cur[t].params.uri = TextHello) =>
                   res'[t].err.text # "No provider found for resource"]_vars

\* ------------------------------------------------------------------------
\* The shape of the subscription map
\* ------------------------------------------------------------------------

\* C40: no URI of the subscription map has an empty subscriber list, no
\* client id is twice in a list, and a subscribe of a client that is
\* subscribed to the URI leaves the map as it was.
C40_SubscriptionMapWellFormed ==
    /\ \A uri \in DOMAIN subscriptions :
          /\ subscriptions[uri] # <<>>
          /\ \A i, j \in DOMAIN subscriptions[uri] :
                subscriptions[uri][i] = subscriptions[uri][j] => i = j
    /\ (/\ call.op = "subscribe"
        /\ call.uri \in DOMAIN call.before
        /\ Contains(call.before[call.uri], call.client_id)) =>
           subscriptions = call.before

\* A client that was subscribed to a URI with two subscribers has
\* subscribed to it again.
C40_Witness ==
    /\ call.op = "subscribe"
    /\ call.uri \in DOMAIN call.before
    /\ Contains(call.before[call.uri], call.client_id)
    /\ Len(call.before[call.uri]) = 2
    /\ Len(subscriptions[call.uri]) = 2

\* ------------------------------------------------------------------------
\* The provider hooks under concurrent calls
\* ------------------------------------------------------------------------

\* C34: once all subscribe and unsubscribe calls have returned, the hook
\* state of the providers matches the subscription map: for a URI with
\* subscribers the last hook call was subscribe, and for a URI without,
\* whose providers have been called, it was unsubscribe.
C34_HooksMatchSubscriptions ==
    (\A t \in Tasks : pc[t] = "idle") =>
        \A uri \in DOMAIN provider_hooks :
            provider_hooks[uri] =
                (IF uri \in DOMAIN subscriptions THEN "subscribe" ELSE "unsubscribe")

\* ------------------------------------------------------------------------
\* The end of the message loop
\* ------------------------------------------------------------------------

\* C38: once the running flag of a started server has been cleared, the
\* message loop of start() ends and start() returns, also when no further
\* message arrives.
C38_LoopEnds ==
    (server.loop # "new" /\ ~server.running) ~> server.loop = "ended"

====
